---- MODULE Spec2Model ----
(***************************************************************************)
(* A model of the caf repository: the commit objects of the object store,  *)
(* HEAD, the branch refs, the merge-in-progress marker, the merge engine   *)
(* (find_common_ancestor, classify_merge, merge), the working directory,   *)
(* the tree objects and the diff engine.                                   *)
(*                                                                         *)
(* A commit hash is a number in 1..NumHashes.  A commit's hash is computed *)
(* from its encoded content, which holds the hashes of its parents, so the *)
(* parents' hashes exist before the commit's own: the model orders hashes  *)
(* so that every parent hash is smaller than the commit's hash, which      *)
(* makes the parent graph acyclic.  A parent hash need not name a stored   *)
(* object.                                                                 *)
(*                                                                         *)
(* The hash of a blob or of a tree stands for its content: <<"blob", c>>   *)
(* for file content c, <<"tree", t>> for the tree t, so that two objects   *)
(* have one hash exactly when their contents are equal.                    *)
(***************************************************************************)
EXTENDS Integers, Sequences, FiniteSets, TLC

VARIABLES
    exists,    \* whether the repository directory <repo> exists
    objects,   \* the commit objects in the store: hash -> list of parent hashes
    tree_hash, \* the tree_hash field of the commit objects: hash -> hash of the root tree
    store,     \* the content-addressed objects in the store: the set of their hashes
    head,      \* the content of <repo>/HEAD: a SymRef or a HashRef (NoRef: no such file)
    branches,  \* the files of <repo>/refs/heads: branch name -> hash, or None (empty file)
    merging,   \* whether the directory <repo>/merge exists
    wd,        \* the working directory: name -> file content or subdirectory
    last,      \* the last repository operation called and what it answered
    fca,       \* the last direct call of find_common_ancestor and its answer
    dc,        \* the last call of diff and its answer
    sc,        \* the last direct call of the object store and its answer
    cw,        \* the commit_working_dir call in progress, when it runs step by step
    tags,      \* the files of <repo>/refs/tags: tag name -> hash
    writers,   \* the commit_working_dir calls of concurrent processes in progress
    lg,        \* the last call of log and what it yielded
    refs_dir   \* what is at <repo>/refs: "dir", "file" or "missing"

vars == <<exists, objects, tree_hash, store, head, branches, merging, wd,
          last, fca, dc, sc, cw, tags, writers, lg, refs_dir>>

\* the records of calls made apart from the repository operations
calls == <<fca, dc, sc, cw>>

\* the state of the operations that run only under their own specification
aside == <<tags, writers, lg, refs_dir>>

----------------------------------------------------------------------------
(* Bounds *)

NumHashes == 3
NumCommits == 4
MaxParents == 2

\* the hashes of the repository model, and those of the commit graphs
\* find_common_ancestor is called on directly
Hashes == 1..NumHashes
Commits == 1..NumCommits
None == 0
Branches == {"main", "dev"}
DEFAULT_BRANCH == "main"

----------------------------------------------------------------------------
(* Refs *)

SymRef(name) == [kind |-> "sym", name |-> name, hash |-> None]
HashRef(h) == [kind |-> "hash", name |-> "", hash |-> h]

\* branch_ref(branch): the symbolic ref heads/<branch>; the model names a
\* ref file under refs/heads by its branch name.
branch_ref(b) == SymRef(b)

Range(s) == {s[i] : i \in 1..Len(s)}

\* the lists of parents a commit with hash c can hold
ParentLists(c) ==
    {ps \in UNION {[1..n -> 1..(c - 1)] : n \in 0..MaxParents} :
        \A i, j \in 1..Len(ps) : i # j => ps[i] # ps[j]}

\* hash_object of a new commit with parents ps: a hash no stored object has,
\* greater than every parent's; the model takes the least one (None when the
\* hashes of the model are used up).
hash_object(objs, ps) ==
    LET free == {h \in Hashes \ DOMAIN objs : \A i \in 1..Len(ps) : ps[i] < h}
    IN IF free = {} THEN None
       ELSE CHOOSE h \in free : \A g \in free : h <= g

\* hash_object of the commit commit_working_dir builds on a tree and a list
\* of parents at some second: the hash of a stored commit with the same tree
\* and parents when author, message and second are those of that commit, a
\* hash no stored object has otherwise
CommitRefs(objs, thash, ps, tree) ==
    {c \in DOMAIN objs \cap DOMAIN thash : objs[c] = ps /\ thash[c] = tree}
        \cup {h \in {hash_object(objs, ps)} : h # None}

----------------------------------------------------------------------------
(* Reference resolution *)

\* read_ref of a branch file: the file must exist
RefFileExists(brs, name) == name \in DOMAIN brs

\* What a branch file holds: nothing (None), a hash, or "ref: <name>", the
\* symbolic ref of the branch numbered i in BranchNames, written as -i.
BranchNames == <<"main", "dev">>
SymValue(name) == 0 - (CHOOSE i \in DOMAIN BranchNames : BranchNames[i] = name)
IsSymValue(v) == v < 0
SymName(v) == BranchNames[0 - v]

\* Repository.resolve_ref on a Ref: [ok, hash]; ok is FALSE when a ref file
\* that has to be read does not exist, or when the symbolic refs read lead
\* back to a file already read (the recursion never ends: RecursionError).
RECURSIVE resolve_ref_from(_, _, _)
resolve_ref_from(brs, ref, hops) ==
    IF ref.kind = "hash" THEN [ok |-> TRUE, hash |-> ref.hash]
    ELSE IF ~RefFileExists(brs, ref.name) THEN [ok |-> FALSE, hash |-> None]
    ELSE IF ~IsSymValue(brs[ref.name]) THEN [ok |-> TRUE, hash |-> brs[ref.name]]
    ELSE IF hops = Cardinality(DOMAIN brs) THEN [ok |-> FALSE, hash |-> None]
    ELSE resolve_ref_from(brs, SymRef(SymName(brs[ref.name])), hops + 1)

resolve_ref(brs, ref) == resolve_ref_from(brs, ref, 0)

\* the exception resolve_ref raises on a Ref, "" when it returns: read_ref
\* opens a ref file that does not exist (FileNotFoundError), or the symbolic
\* refs read lead back to a file already read (RecursionError)
\* the exception of opening a ref file that is not there: FileNotFoundError,
\* or NotADirectoryError when refs is a file
MissingRefFile == IF refs_dir = "file" THEN "NotADirectoryError" ELSE "FileNotFoundError"

RECURSIVE resolve_error_from(_, _, _)
resolve_error_from(brs, ref, hops) ==
    IF ref.kind = "hash" THEN ""
    ELSE IF ~RefFileExists(brs, ref.name) THEN MissingRefFile
    ELSE IF ~IsSymValue(brs[ref.name]) THEN ""
    ELSE IF hops = Cardinality(DOMAIN brs) THEN "RecursionError"
    ELSE resolve_error_from(brs, SymRef(SymName(brs[ref.name])), hops + 1)

\* Repository.head_commit: the hash HEAD resolves to, None when unborn
head_commit(brs, hd) == resolve_ref(brs, hd)

----------------------------------------------------------------------------
(* find_common_ancestor *)

\* load_commit: fails when no object is stored under the hash
CanLoad(objs, c) == c \in DOMAIN objs

\* A first walk that skips a commit it cannot load
RECURSIVE CollectAncestors_skip_unloadable(_, _, _, _)
CollectAncestors_skip_unloadable(objs, stack, anc, loads) ==
    IF stack = <<>> THEN [ok |-> TRUE, anc |-> anc, loads |-> loads]
    ELSE LET current == stack[Len(stack)]
             rest == SubSeq(stack, 1, Len(stack) - 1)
         IN IF ~CanLoad(objs, current)
            THEN CollectAncestors_skip_unloadable(objs, rest, anc \cup {current}, loads)
            ELSE CollectAncestors_skip_unloadable(objs, rest \o objs[current],
                                                  anc \cup {current},
                                                  Append(loads, current))

\* The first walk: an explicit stack, popped at its end, every popped commit
\* added to the set and loaded, its parents pushed.  loads lists the commits
\* loaded, in order.
RECURSIVE CollectAncestors(_, _, _, _)
CollectAncestors(objs, stack, anc, loads) ==
    IF stack = <<>> THEN [ok |-> TRUE, anc |-> anc, loads |-> loads]
    ELSE LET current == stack[Len(stack)]
             rest == SubSeq(stack, 1, Len(stack) - 1)
         IN IF ~CanLoad(objs, current)
            THEN [ok |-> FALSE, anc |-> anc \cup {current}, loads |-> loads]
            ELSE CollectAncestors(objs, rest \o objs[current],
                                  anc \cup {current}, Append(loads, current))

\* A second walk that takes the commit pushed last, depth first
RECURSIVE BfsFromB_depth_first(_, _, _, _)
BfsFromB_depth_first(objs, queue, visited, anc) ==
    IF queue = <<>> THEN [ok |-> TRUE, hash |-> None]
    ELSE LET current == queue[Len(queue)]
             rest == SubSeq(queue, 1, Len(queue) - 1)
         IN IF current \in visited THEN BfsFromB_depth_first(objs, rest, visited, anc)
            ELSE IF current \in anc THEN [ok |-> TRUE, hash |-> current]
            ELSE IF ~CanLoad(objs, current) THEN [ok |-> FALSE, hash |-> None]
            ELSE BfsFromB_depth_first(objs, rest \o objs[current],
                                      visited \cup {current}, anc)

\* A second walk that follows only the first parent of each commit
RECURSIVE BfsFromB_first_parent(_, _, _, _)
BfsFromB_first_parent(objs, queue, visited, anc) ==
    IF queue = <<>> THEN [ok |-> TRUE, hash |-> None]
    ELSE LET current == Head(queue)
             rest == Tail(queue)
         IN IF current \in visited THEN BfsFromB_first_parent(objs, rest, visited, anc)
            ELSE IF current \in anc THEN [ok |-> TRUE, hash |-> current]
            ELSE IF ~CanLoad(objs, current) THEN [ok |-> FALSE, hash |-> None]
            ELSE BfsFromB_first_parent(objs,
                     rest \o SubSeq(objs[current], 1, IF objs[current] = <<>> THEN 0 ELSE 1),
                     visited \cup {current}, anc)

\* The second walk: breadth first from commit_b with a visited set; the first
\* commit met that is in ancestors_of_a is returned.
RECURSIVE BfsFromB(_, _, _, _)
BfsFromB(objs, queue, visited, anc) ==
    IF queue = <<>> THEN [ok |-> TRUE, hash |-> None]
    ELSE LET current == Head(queue)
             rest == Tail(queue)
         IN IF current \in visited THEN BfsFromB(objs, rest, visited, anc)
            ELSE IF current \in anc THEN [ok |-> TRUE, hash |-> current]
            ELSE IF ~CanLoad(objs, current) THEN [ok |-> FALSE, hash |-> None]
            ELSE BfsFromB(objs, rest \o objs[current], visited \cup {current}, anc)

\* [ok, hash]: ok is FALSE when the call raises RuntimeError (a commit failed
\* to load); hash is None when no common ancestor exists.
find_common_ancestor(objs, commit_a, commit_b) ==
    IF commit_a = commit_b THEN [ok |-> TRUE, hash |-> commit_a]
    ELSE LET walk == CollectAncestors(objs, <<commit_a>>, {}, <<>>)
         IN IF ~walk.ok THEN [ok |-> FALSE, hash |-> None]
            ELSE BfsFromB(objs, <<commit_b>>, {}, walk.anc)

\* A classification with the two comparisons against the merge base swapped
classify_merge_swapped(objs, h, target) ==
    LET merge_base == find_common_ancestor(objs, h, target)
    IN IF ~merge_base.ok THEN "ERROR"
       ELSE IF merge_base.hash = None THEN "DISCONNECTED"
       ELSE IF merge_base.hash = h THEN "UP_TO_DATE"
       ELSE IF merge_base.hash = target THEN "FAST_FORWARD"
       ELSE "THREE_WAY"

\* classify_merge; "ERROR" stands for the RuntimeError find_common_ancestor raises
classify_merge(objs, h, target) ==
    LET merge_base == find_common_ancestor(objs, h, target)
    IN IF ~merge_base.ok THEN "ERROR"
       ELSE IF merge_base.hash = None THEN "DISCONNECTED"
       ELSE IF merge_base.hash = target THEN "UP_TO_DATE"
       ELSE IF merge_base.hash = h THEN "FAST_FORWARD"
       ELSE "THREE_WAY"

----------------------------------------------------------------------------
(* The working directory, blobs and trees *)

NumContents == 2
Contents == 1..NumContents

\* the entry names of the model, in the order sorted() lists them
Names == <<"a", "b">>

\* a directory entry: a file with its content, or a subdirectory
File(c) == <<"file", c>>
Dir(d) == <<"dir", d>>

DirsOver(entries) == UNION {[S -> entries] : S \in SUBSET Range(Names)}

\* the directories that hold files only, and those one level above them
FlatDirs == DirsOver({File(c) : c \in Contents})
Dirs == DirsOver({File(c) : c \in Contents} \cup {Dir(d) : d \in FlatDirs})
EmptyDir == <<>>

TreeRecord(type, hash, name) == [type |-> type, hash |-> hash, name |-> name]

\* hash_file: the hash of a file's content
hash_file(c) == <<"blob", c>>

\* hash_object of a Tree: the hash of its records
hash_object_tree(t) == <<"tree", t>>

\* build_tree_from_fs: the Tree of a directory, a record per entry keyed by
\* its name, a subdirectory's record holding the hash of its own Tree
RECURSIVE build_tree_from_fs(_)
build_tree_from_fs(d) ==
    [n \in DOMAIN d |->
        IF d[n][1] = "file"
        THEN TreeRecord("blob", hash_file(d[n][2]), n)
        ELSE TreeRecord("tree", hash_object_tree(build_tree_from_fs(d[n][2])), n)]

\* the hashes of a tree and of the trees below it (the keys of subtrees_by_hash)
RECURSIVE subtrees_by_hash(_)
subtrees_by_hash(t) ==
    {hash_object_tree(t)}
        \cup UNION {subtrees_by_hash(t[n].hash[2]) : n \in {m \in DOMAIN t : t[m].type = "tree"}}

\* A save_dir that leaves empty subdirectories out of the tree
RECURSIVE save_dir_tree_no_empty_dirs(_)
save_dir_tree_no_empty_dirs(d) ==
    [n \in {m \in DOMAIN d : d[m][1] = "file" \/ DOMAIN d[m][2] # {}} |->
        IF d[n][1] = "file"
        THEN TreeRecord("blob", hash_file(d[n][2]), n)
        ELSE TreeRecord("tree", hash_object_tree(save_dir_tree_no_empty_dirs(d[n][2])), n)]

\* Repository.save_dir: the Tree it builds for a directory; every file is
\* saved as a blob and every Tree is saved, the root's hash is returned
RECURSIVE save_dir_tree(_)
save_dir_tree(d) ==
    [n \in DOMAIN d |->
        IF d[n][1] = "file"
        THEN TreeRecord("blob", hash_file(d[n][2]), n)
        ELSE TreeRecord("tree", hash_object_tree(save_dir_tree(d[n][2])), n)]

save_dir(d) == hash_object_tree(save_dir_tree(d))

\* the blobs save_dir writes: save_file_content on every file it meets
RECURSIVE saved_blobs(_)
saved_blobs(d) ==
    {hash_file(d[n][2]) : n \in {m \in DOMAIN d : d[m][1] = "file"}}
        \cup UNION {saved_blobs(d[n][2]) : n \in {m \in DOMAIN d : d[m][1] = "dir"}}

\* the objects save_dir writes: the blob of every file, the Tree of every directory
save_dir_objects(d) == subtrees_by_hash(save_dir_tree(d)) \cup saved_blobs(d)

\* the orders in which iterdir can list the entries of a directory
EntryOrders ==
    {o \in [DOMAIN Names -> Range(Names)] : Range(o) = Range(Names)}

\* dir_path.iterdir(): the names the directory holds, in the listing order
iterdir(d, order) == SelectSeq(order, LAMBDA n : n \in DOMAIN d)

\* the directory at a path below d, a path being the list of names that lead to it
RECURSIVE DirAt(_, _)
DirAt(d, path) == IF path = <<>> THEN d ELSE DirAt(d[path[1]][2], Tail(path))

\* the loop of Repository.save_dir: the objects it writes, in the order it
\* writes them.  A directory popped from the stack has its entries visited
\* in the listing order: a file is saved as a blob, a subdirectory not saved
\* yet stops the visit, the directory and the subdirectory are pushed and the
\* directory is visited again from its first entry later on; when every
\* entry has been visited the directory's tree is saved.
RECURSIVE save_dir_walk(_, _, _, _, _)
save_dir_walk(d, order, stack, hashes, writes) ==
    IF stack = <<>> THEN writes
    ELSE LET current_path == stack[Len(stack)]
             rest == SubSeq(stack, 1, Len(stack) - 1)
             here == DirAt(d, current_path)
             items == iterdir(here, order)
             unsaved == {i \in DOMAIN items :
                            /\ here[items[i]][1] = "dir"
                            /\ Append(current_path, items[i]) \notin hashes}
             stop == IF unsaved = {} THEN Len(items) + 1
                     ELSE CHOOSE i \in unsaved : \A j \in unsaved : i <= j
             files == SelectSeq(SubSeq(items, 1, stop - 1),
                                LAMBDA n : here[n][1] = "file")
             blobs == [i \in DOMAIN files |-> hash_file(here[files[i]][2])]
         IN IF unsaved = {}
            THEN save_dir_walk(d, order, rest, hashes \cup {current_path},
                               (writes \o blobs)
                                   \o <<hash_object_tree(save_dir_tree(here))>>)
            ELSE save_dir_walk(d, order,
                               (rest \o <<current_path>>)
                                   \o <<Append(current_path, items[stop])>>,
                               hashes, writes \o blobs)

\* stack = deque([path]), hashes = {}

\* load_tree: fails when no object is stored under the hash
CanLoadTree(st, h) == h \in st

----------------------------------------------------------------------------
(* Repository.diff *)

\* The Diff objects of one call are kept in a list; an object is named by its
\* index, parent and moved (moved_to / moved_from) hold indexes, children a
\* list of indexes.  The first object is top_level_diff.
NoDiff == 0
TopLevelDiff == 1

Diff(kind, record, parent, moved) ==
    [kind |-> kind, record |-> record, parent |-> parent,
     children |-> <<>>, moved |-> moved]

\* the names of a tree in the order its records are iterated
RecordNames(t) == SelectSeq(Names, LAMBDA n : n \in DOMAIN t)

DictSet(d, k, v) == [x \in DOMAIN d \cup {k} |-> IF x = k THEN v ELSE d[x]]
DictDel(d, k) == [x \in DOMAIN d \ {k} |-> d[x]]

\* parent.children.append(diff)
AppendChild(nodes, parent, i) == [nodes EXCEPT ![parent].children = Append(@, i)]

\* parent.children = [_ if _.record.hash != hash else new for _ in parent.children]
ReplaceByHash(nodes, parent, h, new) ==
    [nodes EXCEPT ![parent].children =
        [k \in 1..Len(nodes[parent].children) |->
            IF nodes[nodes[parent].children[k]].record.hash # h
            THEN nodes[parent].children[k] ELSE new]]

\* Records compared as different whatever their hashes
SameRecord_never(record1, record2) == FALSE

\* record1.hash == record2.hash: the record is identical in both trees
SameRecord(record1, record2) == record1.hash = record2.hash

\* A name of tree 1 that tree 2 lacks, never matched against the added records
Record1Only_no_move(w, record1, parent_diff) ==
    LET local_diff == Len(w.nodes) + 1
    IN [w EXCEPT !.nodes = AppendChild(Append(w.nodes,
                                Diff("Removed", record1, parent_diff, NoDiff)),
                                parent_diff, local_diff),
                 !.potentially_removed = DictSet(@, record1.hash, local_diff)]

\* A name of tree 1 that tree 2 lacks: moved when its hash was seen as
\* potentially added, otherwise removed and remembered as potentially removed
Record1Only(w, record1, parent_diff) ==
    LET local_diff == Len(w.nodes) + 1
    IN IF record1.hash \in DOMAIN w.potentially_added
       THEN LET added_diff == w.potentially_added[record1.hash]
                moved_from_diff == Len(w.nodes) + 2
                created == w.nodes \o
                    <<Diff("MovedTo", record1, parent_diff, moved_from_diff),
                      Diff("MovedFrom", w.nodes[added_diff].record,
                           w.nodes[added_diff].parent, local_diff)>>
                replaced == ReplaceByHash(created, created[added_diff].parent,
                                          record1.hash, moved_from_diff)
            IN [w EXCEPT !.nodes = AppendChild(replaced, parent_diff, local_diff),
                         !.potentially_added = DictDel(@, record1.hash)]
       ELSE [w EXCEPT !.nodes = AppendChild(Append(w.nodes,
                                    Diff("Removed", record1, parent_diff, NoDiff)),
                                    parent_diff, local_diff),
                      !.potentially_removed = DictSet(@, record1.hash, local_diff)]

\* A comparison that takes a name both trees hold for unchanged
RecordBoth_unchanged(w, record1, record2, parent_diff, avail1, avail2) == w

\* A comparison that reports a directory it cannot load as modified and
\* goes on
RecordBoth_skip_unloadable(w, record1, record2, parent_diff, avail1, avail2) ==
    LET local_diff == Len(w.nodes) + 1
        modified == AppendChild(Append(w.nodes,
                        Diff("Modified", record1, parent_diff, NoDiff)),
                        parent_diff, local_diff)
    IN IF SameRecord(record1, record2) THEN w
       ELSE IF /\ record1.type = "tree" /\ record2.type = "tree"
               /\ record1.hash \in avail1 /\ record2.hash \in avail2
            THEN [w EXCEPT !.nodes = modified,
                           !.stack = Append(@, <<record1.hash[2], record2.hash[2],
                                                 local_diff>>)]
            ELSE [w EXCEPT !.nodes = modified]

\* A name both trees hold: nothing when the hashes are equal; two trees are
\* looked up and pushed for comparison under a Modified node; anything else
\* is Modified.  avail1 and avail2 are the tree hashes the lookups can load.
RecordBoth(w, record1, record2, parent_diff, avail1, avail2) ==
    LET local_diff == Len(w.nodes) + 1
        modified == AppendChild(Append(w.nodes,
                        Diff("Modified", record1, parent_diff, NoDiff)),
                        parent_diff, local_diff)
    IN IF SameRecord(record1, record2) THEN w
       ELSE IF record1.type = "tree" /\ record2.type = "tree"
            THEN IF record1.hash \in avail1 /\ record2.hash \in avail2
                 THEN [w EXCEPT !.nodes = modified,
                                !.stack = Append(@, <<record1.hash[2], record2.hash[2],
                                                      local_diff>>)]
                 ELSE [w EXCEPT !.ok = FALSE]
            ELSE [w EXCEPT !.nodes = modified]

\* A name of tree 2 that tree 1 lacks: moved when its hash was seen as
\* potentially removed, otherwise added and remembered as potentially added
Record2Only(w, record2, parent_diff) ==
    LET local_diff == Len(w.nodes) + 1
    IN IF record2.hash \in DOMAIN w.potentially_removed
       THEN LET removed_diff == w.potentially_removed[record2.hash]
                moved_to_diff == Len(w.nodes) + 2
                created == w.nodes \o
                    <<Diff("MovedFrom", record2, parent_diff, moved_to_diff),
                      Diff("MovedTo", w.nodes[removed_diff].record,
                           w.nodes[removed_diff].parent, local_diff)>>
                replaced == ReplaceByHash(created, created[removed_diff].parent,
                                          record2.hash, moved_to_diff)
            IN [w EXCEPT !.nodes = AppendChild(replaced, parent_diff, local_diff),
                         !.potentially_removed = DictDel(@, record2.hash)]
       ELSE [w EXCEPT !.nodes = AppendChild(Append(w.nodes,
                                    Diff("Added", record2, parent_diff, NoDiff)),
                                    parent_diff, local_diff),
                      !.potentially_added = DictSet(@, record2.hash, local_diff)]

\* for name, record1 in records1.items()
RECURSIVE DiffRecords1(_, _, _, _, _, _, _)
DiffRecords1(w, names, tree1, tree2, parent_diff, avail1, avail2) ==
    IF names = <<>> \/ ~w.ok THEN w
    ELSE LET record1 == tree1[Head(names)]
         IN DiffRecords1(IF Head(names) \notin DOMAIN tree2
                         THEN Record1Only(w, record1, parent_diff)
                         ELSE RecordBoth(w, record1, tree2[Head(names)],
                                         parent_diff, avail1, avail2),
                         Tail(names), tree1, tree2, parent_diff, avail1, avail2)

\* for name, record2 in records2.items()
RECURSIVE DiffRecords2(_, _, _, _, _)
DiffRecords2(w, names, tree1, tree2, parent_diff) ==
    IF names = <<>> \/ ~w.ok THEN w
    ELSE DiffRecords2(IF Head(names) \notin DOMAIN tree1
                      THEN Record2Only(w, tree2[Head(names)], parent_diff)
                      ELSE w,
                      Tail(names), tree1, tree2, parent_diff)

\* while stack: the pair of trees pushed last is compared first
RECURSIVE DiffWalk(_, _, _)
DiffWalk(w, avail1, avail2) ==
    IF w.stack = <<>> \/ ~w.ok THEN w
    ELSE LET top == w.stack[Len(w.stack)]
             popped == [w EXCEPT !.stack = SubSeq(@, 1, Len(@) - 1)]
             after1 == DiffRecords1(popped, RecordNames(top[1]), top[1], top[2],
                                    top[3], avail1, avail2)
             after2 == DiffRecords2(after1, RecordNames(top[2]), top[1], top[2],
                                    top[3])
         IN DiffWalk(after2, avail1, avail2)

\* the comparison of two root trees: [ok, nodes]; ok is FALSE when a subtree
\* failed to load, the answer is the children of nodes[TopLevelDiff]
diff_trees(tree1, tree2, avail1, avail2) ==
    LET w == DiffWalk([nodes |-> <<Diff("Top", TreeRecord("tree", <<"none", 0>>, ""),
                                        NoDiff, NoDiff)>>,
                       stack |-> <<<<tree1, tree2, TopLevelDiff>>>>,
                       potentially_added |-> <<>>,
                       potentially_removed |-> <<>>,
                       ok |-> TRUE], avail1, avail2)
    IN [ok |-> w.ok, nodes |-> IF w.ok THEN w.nodes ELSE <<>>]

\* the sources of a diff: a Ref, the path of the working directory, or None
PathSource == [kind |-> "path", name |-> ".", hash |-> None]
NoSource == [kind |-> "none", name |-> "", hash |-> None]

\* Repository._source_to_tree: [ok, tree, mem]; a directory gives the tree
\* built from it and its subtrees in memory, a ref the root tree of the
\* commit it resolves to.
source_to_tree(objs, thash, st, brs, dir, source) ==
    IF source.kind = "path"
    THEN [ok |-> TRUE, tree |-> build_tree_from_fs(dir),
          mem |-> subtrees_by_hash(build_tree_from_fs(dir))]
    ELSE LET commit_hash == resolve_ref(brs, source)
         IN IF /\ commit_hash.ok
               /\ commit_hash.hash # None
               /\ CanLoad(objs, commit_hash.hash)
               /\ CanLoadTree(st, thash[commit_hash.hash])
            THEN [ok |-> TRUE, tree |-> thash[commit_hash.hash][2], mem |-> {}]
            ELSE [ok |-> FALSE, tree |-> <<>>, mem |-> {}]

\* Repository._make_lookup: the tree hashes a lookup can load
make_lookup(st, mem_trees) == mem_trees \cup st

\* Repository.diff: [ok, nodes]; no source stands for HEAD, the same source on
\* both sides gives the empty list without loading anything.
diff(objs, thash, st, brs, hd, dir, source1, source2) ==
    LET s1 == IF source1 = NoSource THEN hd ELSE source1
        s2 == IF source2 = NoSource THEN hd ELSE source2
        t1 == source_to_tree(objs, thash, st, brs, dir, s1)
        t2 == source_to_tree(objs, thash, st, brs, dir, s2)
        top == Diff("Top", TreeRecord("tree", <<"none", 0>>, ""), NoDiff, NoDiff)
    IN IF (source1 = NoSource \/ source2 = NoSource) /\ hd.kind = "absent"
       THEN [ok |-> FALSE, nodes |-> <<>>]
       ELSE IF s1 = s2 THEN [ok |-> TRUE, nodes |-> <<top>>]
       ELSE IF ~t1.ok \/ ~t2.ok THEN [ok |-> FALSE, nodes |-> <<>>]
       ELSE diff_trees(t1.tree, t2.tree, make_lookup(st, t1.mem),
                       make_lookup(st, t2.mem))

\* the list a diff returns: the children of top_level_diff
DiffResult(d) == IF d.ok THEN d.nodes[TopLevelDiff].children ELSE <<>>

----------------------------------------------------------------------------
(* Operations *)

Call(op, target, h, base, case, result) ==
    [op |-> op, target |-> target, head |-> h, base |-> base,
     case |-> case, result |-> result, name |-> ""]

Answer(op, result) == Call(op, None, None, None, "", result)

NoCall == [a |-> None, b |-> None, ok |-> TRUE, hash |-> None]

\* what a @requires_repo operation answers when the repository is missing
NotFound(op) == Answer(op, "RepositoryNotFoundError")

\* no HEAD file
NoRef == [kind |-> "absent", name |-> "", hash |-> None]

NoDiffCall ==
    [source1 |-> NoSource, source2 |-> NoSource, ok |-> TRUE, nodes |-> <<>>,
     error |-> ""]
NoStoreCall == [op |-> "", object |-> <<>>, hash |-> <<>>, result |-> "", before |-> {}]
NoCommit == [pc |-> 0, branch |-> "", parent |-> None, commit |-> None, writes |-> <<>>]

\* log has not been called
NoLog == [tip |-> NoRef, pc |-> "none", ok |-> TRUE, entries |-> <<>>, current |-> None,
          error |-> ""]

\* The state Repository.init leaves: the default branch, unborn, and HEAD on
\* it; the working directory is empty.
Init ==
    /\ exists = TRUE
    /\ objects = <<>>
    /\ tree_hash = <<>>
    /\ store = {}
    /\ head = branch_ref(DEFAULT_BRANCH)
    /\ branches = [b \in {DEFAULT_BRANCH} |-> None]
    /\ merging = FALSE
    /\ wd = EmptyDir
    /\ last = Answer("init", "None")
    /\ fca = NoCall
    /\ dc = NoDiffCall
    /\ sc = NoStoreCall
    /\ cw = NoCommit
    /\ tags = <<>>
    /\ writers = <<>>
    /\ lg = NoLog
    /\ refs_dir = IF exists THEN "dir" ELSE "missing"

\* the commit objects after save_commit of a commit with hash c and parents ps
SavedCommits(objs, c, ps) ==
    [x \in DOMAIN objs \cup {c} |-> IF x \in DOMAIN objs THEN objs[x] ELSE ps]

\* their tree_hash fields, the new commit's being th
SavedTreeHashes(thash, c, th) ==
    [x \in DOMAIN thash \cup {c} |-> IF x \in DOMAIN thash THEN thash[x] ELSE th]

\* save_dir of an empty directory, then save_commit of a commit object built
\* by the caller on that tree, its parents any stored commits in any order
SaveCommit(ps) ==
    /\ exists
    /\ Range(ps) \subseteq DOMAIN objects
    /\ hash_object(objects, ps) # None
    /\ objects' = SavedCommits(objects, hash_object(objects, ps), ps)
    /\ tree_hash' = SavedTreeHashes(tree_hash, hash_object(objects, ps), save_dir(EmptyDir))
    /\ store' = store \cup save_dir_objects(EmptyDir)
    /\ last' = Answer("save_commit", "None")
    /\ UNCHANGED <<exists, head, branches, merging, wd, calls, aside>>

\* Repository.add_branch
add_branch(b) ==
    /\ IF ~exists THEN /\ last' = NotFound("add_branch")
                       /\ UNCHANGED branches
       ELSE IF b = "" THEN /\ last' = Answer("add_branch", "ValueError")
                           /\ UNCHANGED branches
       ELSE IF b \in DOMAIN branches
            THEN /\ last' = Answer("add_branch", "RepositoryError")
                 /\ UNCHANGED branches
       ELSE IF refs_dir # "dir"
            THEN /\ last' = Answer("add_branch", MissingRefFile)
                 /\ UNCHANGED branches
            ELSE /\ branches' = [x \in DOMAIN branches \cup {b} |->
                                    IF x = b THEN None ELSE branches[x]]
                 /\ last' = Answer("add_branch", "None")
    /\ UNCHANGED <<exists, objects, tree_hash, store, head, merging, wd, calls, aside>>

\* A delete_branch that also deletes the last branch
delete_branch_last_too(b) ==
    /\ IF ~exists THEN /\ last' = NotFound("delete_branch")
                       /\ UNCHANGED branches
       ELSE IF b = "" THEN /\ last' = Answer("delete_branch", "ValueError")
                           /\ UNCHANGED branches
       ELSE IF b \notin DOMAIN branches
            THEN /\ last' = Answer("delete_branch", "RepositoryError")
                 /\ UNCHANGED branches
            ELSE /\ branches' = [x \in DOMAIN branches \ {b} |-> branches[x]]
                 /\ last' = Answer("delete_branch", "None")
    /\ UNCHANGED <<exists, objects, tree_hash, store, head, merging, wd, calls, aside>>

\* Repository.delete_branch
delete_branch(b) ==
    /\ IF ~exists THEN /\ last' = NotFound("delete_branch")
                       /\ UNCHANGED branches
       ELSE IF b = "" THEN /\ last' = Answer("delete_branch", "ValueError")
                           /\ UNCHANGED branches
       ELSE IF b \notin DOMAIN branches \/ Cardinality(DOMAIN branches) = 1
            THEN /\ last' = Answer("delete_branch", "RepositoryError")
                 /\ UNCHANGED branches
            ELSE /\ branches' = [x \in DOMAIN branches \ {b} |-> branches[x]]
                 /\ last' = Answer("delete_branch", "None")
    /\ UNCHANGED <<exists, objects, tree_hash, store, head, merging, wd, calls, aside>>

\* Repository.update_ref of a branch ref to a hash
update_ref(b, h) ==
    /\ IF ~exists THEN /\ last' = NotFound("update_ref")
                       /\ UNCHANGED branches
       ELSE IF b \notin DOMAIN branches
       THEN /\ last' = Answer("update_ref", "RepositoryError")
            /\ UNCHANGED branches
       ELSE /\ branches' = [branches EXCEPT ![b] = h]
            /\ last' = Answer("update_ref", "None")
    /\ UNCHANGED <<exists, objects, tree_hash, store, head, merging, wd, calls, aside>>

\* A save_dir that leaves in the store only the trees of the directory it saves
StoreAfterSaveDir_only(st, d) == save_dir_objects(d)

\* the store after Repository.save_dir: what was stored, and the saved trees
StoreAfterSaveDir(st, d) == st \cup save_dir_objects(d)

\* A parents list that is always empty
commit_parents_none(parent_hash) == <<>>

\* the parents of the commit commit_working_dir builds
commit_parents(parent_hash) ==
    IF parent_hash # None THEN <<parent_hash>> ELSE <<>>

\* A commit that never moves a branch
commit_moves_branch_never(hd) == FALSE

\* whether commit_working_dir has a branch to update: HEAD is a SymRef
commit_moves_branch(hd) == hd.kind = "sym"

\* what head_ref and head_commit raise when they fail: head_ref when the
\* HEAD file is missing, otherwise resolve_ref on the ref HEAD holds
HeadError(brs, hd) ==
    IF hd = NoRef THEN "RepositoryError" ELSE resolve_error_from(brs, hd, 0)

\* Repository.commit_working_dir: the working directory is saved as a tree,
\* the new commit's only parent is the commit HEAD resolves to; the branch
\* HEAD names, if any, is moved to the new commit.
commit_working_dir(author, message) ==
    /\ IF ~exists
       THEN /\ last' = NotFound("commit")
            /\ UNCHANGED <<objects, tree_hash, store, branches>>
       ELSE IF author = "" \/ message = ""
       THEN /\ last' = Answer("commit", "ValueError")
            /\ UNCHANGED <<objects, tree_hash, store, branches>>
       ELSE LET parent_commit_ref == head_commit(branches, head)
            IN IF ~parent_commit_ref.ok
               THEN /\ last' = Answer("commit", HeadError(branches, head))
                    /\ UNCHANGED <<objects, tree_hash, store, branches>>
               ELSE LET parents == commit_parents(parent_commit_ref.hash)
                    IN \E commit_ref \in CommitRefs(objects, tree_hash, parents,
                                                    save_dir(wd)) :
                       /\ store' = StoreAfterSaveDir(store, wd)
                       /\ objects' = SavedCommits(objects, commit_ref, parents)
                       /\ tree_hash' = SavedTreeHashes(tree_hash, commit_ref, save_dir(wd))
                       /\ branches' = IF commit_moves_branch(head)
                                      THEN [branches EXCEPT ![head.name] = commit_ref]
                                      ELSE branches
                       /\ last' = Call("commit", commit_ref, parent_commit_ref.hash,
                                       None, "", "HashRef")
    /\ UNCHANGED <<exists, head, merging, wd, calls, aside>>

\* The move that set_head is specified to make: the current branch ref, or a
\* detached HEAD, goes to target. Repository defines no set_head, so merge
\* never gets to make it (see merge_moves_head).
set_head_branches(brs, hd, target) ==
    IF hd.kind = "sym" THEN [brs EXCEPT ![hd.name] = target] ELSE brs

set_head_head(hd, target) ==
    IF hd.kind = "sym" THEN hd ELSE HashRef(target)

\* the directory that holds the files of a tree: every blob-backed path
\* written, no directory left empty
RECURSIVE tree_to_dir(_)
tree_to_dir(t) ==
    LET kept == {n \in DOMAIN t : t[n].type = "blob" \/ tree_to_dir(t[n].hash[2]) # EmptyDir}
    IN [n \in kept |-> IF t[n].type = "blob" THEN File(t[n].hash[2])
                        ELSE Dir(tree_to_dir(t[n].hash[2]))]

\* the root tree of a commit: [ok, tree]; no commit (an unborn branch) has
\* the empty tree
commit_tree(objs, thash, st, c) ==
    IF c = None THEN [ok |-> TRUE, tree |-> <<>>]
    ELSE IF CanLoad(objs, c) /\ CanLoadTree(st, thash[c])
         THEN [ok |-> TRUE, tree |-> thash[c][2]]
         ELSE [ok |-> FALSE, tree |-> <<>>]

\* the untracked entries of the working directory that a file of the target
\* tree would overwrite
checkout_collisions(current_tree, target_tree, dir) ==
    {n \in DOMAIN dir : n \notin DOMAIN current_tree /\ n \in DOMAIN target_tree}

\* A checkout that does not look at the changes of the working directory
checkout_answer_ignores_changes(objs, thash, st, brs, hd, dir, ref) ==
    LET target == resolve_ref(brs, ref)
        current == head_commit(brs, hd)
        current_tree == commit_tree(objs, thash, st, current.hash)
        target_tree == commit_tree(objs, thash, st, target.hash)
    IN IF ~target.ok THEN "RefError"
       ELSE IF ~current.ok THEN HeadError(brs, hd)
       ELSE IF ~current_tree.ok \/ ~target_tree.ok THEN "RepositoryError"
       ELSE IF checkout_collisions(current_tree.tree, target_tree.tree, dir) # {}
            THEN "RepositoryError"
       ELSE "None"

\* what checkout answers, before it changes anything
checkout_answer(objs, thash, st, brs, hd, dir, ref) ==
    LET target == resolve_ref(brs, ref)
        current == head_commit(brs, hd)
        current_tree == commit_tree(objs, thash, st, current.hash)
        target_tree == commit_tree(objs, thash, st, target.hash)
        local == diff_trees(current_tree.tree, build_tree_from_fs(dir), st,
                            make_lookup(st, subtrees_by_hash(build_tree_from_fs(dir))))
    IN IF ~target.ok THEN "RefError"
       ELSE IF ~current.ok THEN HeadError(brs, hd)
       ELSE IF ~current_tree.ok \/ ~target_tree.ok \/ ~local.ok THEN "RepositoryError"
       ELSE IF DiffResult(local) # <<>> THEN "RepositoryError"
       ELSE IF checkout_collisions(current_tree.tree, target_tree.tree, dir) # {}
            THEN "RepositoryError"
       ELSE "None"

\* A checkout that leaves HEAD detached whatever the target was given as
checkout_head_detached(ref, target) == HashRef(target)

\* the HEAD a checkout writes: the branch given, or the hash given
checkout_head(ref, target) ==
    IF ref.kind = "sym" THEN SymRef(ref.name) ELSE HashRef(target)

\* Repository.checkout: refuses when the working directory differs from the
\* tree of HEAD's commit; otherwise the working directory becomes the target
\* tree and HEAD the ref given, symbolic for a branch, detached for a hash.
checkout(ref) ==
    /\ IF ~exists
       THEN /\ last' = NotFound("checkout")
            /\ UNCHANGED <<head, wd>>
       ELSE LET answer == checkout_answer(objects, tree_hash, store, branches, head, wd, ref)
                target == resolve_ref(branches, ref)
            IN /\ last' = [Call("checkout", target.hash, None, None, ref.kind, answer)
                                EXCEPT !.name = ref.name]
               /\ IF answer = "None"
                  THEN /\ wd' = tree_to_dir(commit_tree(objects, tree_hash, store,
                                                        target.hash).tree)
                       /\ head' = checkout_head(ref, target.hash)
                  ELSE UNCHANGED <<head, wd>>
    /\ UNCHANGED <<exists, objects, tree_hash, store, branches, merging, calls, aside>>

\* An _enter_merge_state that accepts an existing marker (mkdir exist_ok)
enter_merge_state_exist_ok ==
    /\ IF ~exists
       THEN /\ last' = NotFound("enter_merge")
            /\ UNCHANGED merging
       ELSE /\ merging' = TRUE
            /\ last' = Answer("enter_merge", "None")
    /\ UNCHANGED <<exists, objects, tree_hash, store, head, branches, wd, calls, aside>>

\* Repository.is_merging: [result, value]; RepositoryNotFoundError without a
\* repository, otherwise whether the merge directory exists
is_merging(ex, marker) ==
    IF ex THEN [result |-> "bool", value |-> marker]
    ELSE [result |-> "RepositoryNotFoundError", value |-> FALSE]

\* Repository._enter_merge_state
enter_merge_state ==
    /\ IF ~exists
       THEN /\ last' = NotFound("enter_merge")
            /\ UNCHANGED merging
       ELSE IF merging
       THEN /\ last' = Answer("enter_merge", "RepositoryError")
            /\ UNCHANGED merging
       ELSE /\ merging' = TRUE
            /\ last' = Answer("enter_merge", "None")
    /\ UNCHANGED <<exists, objects, tree_hash, store, head, branches, wd, calls, aside>>

\* What merge answers for each classification: the value it returns ("None")
\* or the exception it raises. The FAST_FORWARD arm calls repo.set_head, an
\* attribute Repository does not have: the lookup raises AttributeError.
merge_result(case) ==
    CASE case = "DISCONNECTED" -> "RuntimeError"
      [] case = "UP_TO_DATE" -> "None"
      [] case = "FAST_FORWARD" -> "AttributeError"
      [] case = "THREE_WAY" -> "NotImplementedError"
      [] OTHER -> "RuntimeError"

\* A merge that also moves HEAD when it is up to date
merge_moves_head_up_to_date(case) == case \in {"FAST_FORWARD", "UP_TO_DATE"}

\* Whether merge moves HEAD to target: in no case. The one call that would,
\* repo.set_head(target) in the FAST_FORWARD arm, raises AttributeError
\* before anything is written.
merge_moves_head(case) == FALSE

\* A merge that creates the marker whatever the classification
merge_enters_state_always(case) == TRUE

\* Whether merge enters the merge-in-progress state
merge_enters_state(case) == FALSE

\* caf.merge.merge
merge(target) ==
    LET h == head_commit(branches, head)
    IN /\ IF ~exists
          THEN /\ last' = Call("merge", target, None, None, "ERROR",
                               "RepositoryNotFoundError")
               /\ UNCHANGED <<head, branches, merging>>
          ELSE IF ~h.ok
          THEN /\ last' = Call("merge", target, None, None, "ERROR", HeadError(branches, head))
               /\ UNCHANGED <<head, branches, merging>>
          ELSE LET merge_base == find_common_ancestor(objects, h.hash, target)
                   case == classify_merge(objects, h.hash, target)
               IN /\ last' = Call("merge", target, h.hash, merge_base.hash, case,
                                  merge_result(case))
                  /\ IF merge_moves_head(case)
                     THEN /\ head' = set_head_head(head, target)
                          /\ branches' = set_head_branches(branches, head, target)
                     ELSE UNCHANGED <<head, branches>>
                  /\ merging' = (merging \/ merge_enters_state(case))
       /\ UNCHANGED <<exists, objects, tree_hash, store, wd, calls, aside>>

Next ==
    \/ \E ps \in ParentLists(NumHashes) : SaveCommit(ps)
    \/ \E b \in Branches \cup {""} : add_branch(b)
    \/ \E b \in Branches \cup {""} : delete_branch(b)
    \/ \E b \in Branches : \E h \in Hashes : update_ref(b, h)
    \/ \E author, message \in {"", "a"} : commit_working_dir(author, message)
    \/ \E b \in Branches : checkout(branch_ref(b))
    \/ \E h \in Hashes : checkout(HashRef(h))
    \/ enter_merge_state
    \/ \E target \in Hashes : merge(target)

Spec == Init /\ [][Next]_vars

----------------------------------------------------------------------------
(* find_common_ancestor called directly on any commit graph of the store *)

\* save_commit of a commit object with hash c and parents ps
StoreCommit(c, ps) ==
    /\ c \notin DOMAIN objects
    /\ objects' = [x \in DOMAIN objects \cup {c} |-> IF x = c THEN ps ELSE objects[x]]
    /\ fca' = NoCall
    /\ UNCHANGED <<exists, tree_hash, store, head, branches, merging, wd, last, dc, sc, cw, aside>>

FindCommonAncestor(a, b) ==
    /\ fca' = [a |-> a, b |-> b,
               ok |-> find_common_ancestor(objects, a, b).ok,
               hash |-> find_common_ancestor(objects, a, b).hash]
    /\ UNCHANGED <<exists, objects, tree_hash, store, head, branches, merging, wd,
                   last, dc, sc, cw, aside>>

NextFCA ==
    \/ \E c \in Commits : \E ps \in ParentLists(c) : StoreCommit(c, ps)
    \/ \E a, b \in Commits : FindCommonAncestor(a, b)

SpecFCA == Init /\ [][NextFCA]_vars

----------------------------------------------------------------------------
(* The repository with files edited in its working directory *)

\* a file of the working directory is written, created if need be
write_file(n, c) ==
    /\ IF n \in DOMAIN wd /\ wd[n][1] = "dir"
       THEN /\ last' = Answer("write_file", "IsADirectoryError")
            /\ UNCHANGED wd
       ELSE /\ wd' = DictSet(wd, n, File(c))
            /\ last' = Answer("write_file", "None")
    /\ UNCHANGED <<exists, objects, tree_hash, store, head, branches, merging, calls, aside>>

\* a file of the working directory is deleted: unlink on a name that is a
\* directory raises IsADirectoryError and leaves the directory
remove_file(n) ==
    /\ n \in DOMAIN wd
    /\ IF wd[n][1] = "dir"
       THEN /\ last' = Answer("remove_file", "IsADirectoryError")
            /\ UNCHANGED wd
       ELSE /\ wd' = DictDel(wd, n)
            /\ last' = Answer("remove_file", "None")
    /\ UNCHANGED <<exists, objects, tree_hash, store, head, branches, merging, calls, aside>>

\* the commits made in the working-directory model
MaxWdCommits == 2

\* the files edited
EditedNames == {Names[1]}

NextWD ==
    \/ \E n \in EditedNames : \E c \in Contents : write_file(n, c)
    \/ \E n \in EditedNames : remove_file(n)
    \/ Cardinality(DOMAIN objects) < MaxWdCommits /\ commit_working_dir("a", "m")
    \/ \E b \in Branches : add_branch(b)
    \/ \E b \in Branches : checkout(branch_ref(b))
    \/ \E h \in Hashes : checkout(HashRef(h))

SpecWD == Init /\ [][NextWD]_vars

----------------------------------------------------------------------------
(* commit_working_dir run step by step, a crash possible between two steps *)

\* The steps with the branch ref updated before the commit object is saved
commit_steps_ref_first == <<"save_dir", "update_ref", "save_commit">>

\* the writes of commit_working_dir, in the order the code makes them
commit_steps == <<"save_dir", "save_commit", "update_ref">>

\* the checks and reads before the first write: author and message, HEAD
\* and the commit it resolves to
commit_begin(author, message) ==
    /\ cw.pc = 0
    /\ IF ~exists
       THEN /\ last' = NotFound("commit")
            /\ UNCHANGED cw
       ELSE IF author = "" \/ message = ""
       THEN /\ last' = Answer("commit", "ValueError")
            /\ UNCHANGED cw
       ELSE LET parent_commit_ref == head_commit(branches, head)
            IN IF ~parent_commit_ref.ok
               THEN /\ last' = Answer("commit", HeadError(branches, head))
                    /\ UNCHANGED cw
               ELSE \E order \in EntryOrders :
                    /\ cw' = [pc |-> 1,
                              branch |-> IF commit_moves_branch(head) THEN head.name ELSE "",
                              parent |-> parent_commit_ref.hash,
                              commit |-> None,
                              writes |-> save_dir_walk(wd, order, <<<<>>>>, {}, <<>>)]
                    /\ last' = Answer("commit_begin", "None")
    /\ UNCHANGED <<exists, objects, tree_hash, store, head, branches, merging, wd,
                   fca, dc, sc, aside>>

\* the call goes on to its next step, or returns after the last one
commit_next(result) ==
    IF cw.pc = Len(commit_steps)
    THEN /\ cw' = NoCommit
         /\ last' = Call("commit", cw.commit, cw.parent, None, "", result)
    ELSE /\ cw' = [cw EXCEPT !.pc = @ + 1]
         /\ last' = Answer("commit_step", "None")

\* the next write of the call in progress: save_dir writes its objects one
\* by one, the commit is built and hashed when the tree is saved, save_commit
\* writes it, update_ref moves the branch read at the start and raises
\* RepositoryError when its file is gone; after the last write the call returns
commit_step ==
    /\ cw.pc \in 1..Len(commit_steps)
    /\ CASE commit_steps[cw.pc] = "save_dir" ->
              /\ store' = store \cup {Head(cw.writes)}
              /\ IF Len(cw.writes) > 1
                 THEN /\ cw' = [cw EXCEPT !.writes = Tail(@)]
                      /\ last' = Answer("commit_step", "None")
                 ELSE \E commit_ref \in CommitRefs(objects, tree_hash,
                                                   commit_parents(cw.parent), save_dir(wd)) :
                      /\ cw' = [cw EXCEPT !.pc = @ + 1, !.writes = <<>>,
                                          !.commit = commit_ref]
                      /\ last' = Answer("commit_step", "None")
              /\ UNCHANGED <<objects, tree_hash, branches>>
         [] commit_steps[cw.pc] = "save_commit" ->
              /\ objects' = SavedCommits(objects, cw.commit, commit_parents(cw.parent))
              /\ tree_hash' = SavedTreeHashes(tree_hash, cw.commit, save_dir(wd))
              /\ commit_next("HashRef")
              /\ UNCHANGED <<store, branches>>
         [] commit_steps[cw.pc] = "update_ref" ->
              /\ IF cw.branch = ""
                 THEN /\ commit_next("HashRef")
                      /\ UNCHANGED branches
                 ELSE IF cw.branch \notin DOMAIN branches
                 THEN /\ cw' = NoCommit
                      /\ last' = Call("commit", cw.commit, cw.parent, None, "",
                                      "RepositoryError")
                      /\ UNCHANGED branches
                 ELSE /\ branches' = [branches EXCEPT ![cw.branch] = cw.commit]
                      /\ commit_next("HashRef")
              /\ UNCHANGED <<objects, tree_hash, store>>
    /\ UNCHANGED <<exists, head, merging, wd, fca, dc, sc, aside>>

\* the process dies between two writes: what was written stays written
crash ==
    /\ cw.pc > 0
    /\ cw' = NoCommit
    /\ last' = Answer("crash", "None")
    /\ UNCHANGED <<exists, objects, tree_hash, store, head, branches, merging, wd,
                   fca, dc, sc, aside>>

NextSteps ==
    \/ cw.pc = 0 /\ \E n \in EditedNames : \E c \in Contents : write_file(n, c)
    \/ cw.pc = 0 /\ \E n \in EditedNames : remove_file(n)
    \/ cw.pc = 0 /\ \E b \in Branches : add_branch(b)
    \/ cw.pc = 0 /\ \E b \in Branches : checkout(branch_ref(b))
    \/ \E b \in Branches : delete_branch(b)
    \/ /\ Cardinality(DOMAIN objects) < MaxWdCommits
       /\ \E author, message \in {"", "a"} : commit_begin(author, message)
    \/ commit_step
    \/ crash

SpecSteps == Init /\ [][NextSteps]_vars

----------------------------------------------------------------------------
(* The repository from before it is created: init and delete_repo *)

\* a Repository object just constructed: nothing on disk
InitLife ==
    /\ exists = FALSE
    /\ objects = <<>>
    /\ tree_hash = <<>>
    /\ store = {}
    /\ head = NoRef
    /\ branches = <<>>
    /\ merging = FALSE
    /\ wd = EmptyDir
    /\ last = Answer("Repository", "None")
    /\ fca = NoCall
    /\ dc = NoDiffCall
    /\ sc = NoStoreCall
    /\ cw = NoCommit
    /\ tags = <<>>
    /\ writers = <<>>
    /\ lg = NoLog
    /\ refs_dir = IF exists THEN "dir" ELSE "missing"

\* Repository.init: the repository directories are made, then the default
\* branch is added, then HEAD is written; mkdir fails on an existing directory
init(default_branch) ==
    /\ IF exists
       THEN /\ last' = Answer("init", "FileExistsError")
            /\ UNCHANGED <<exists, head, branches, refs_dir>>
       ELSE IF default_branch = ""
       THEN /\ exists' = TRUE
            /\ refs_dir' = "dir"
            /\ last' = Answer("init", "ValueError")
            /\ UNCHANGED <<head, branches>>
       ELSE /\ exists' = TRUE
            /\ refs_dir' = "dir"
            /\ branches' = [b \in {default_branch} |-> None]
            /\ head' = branch_ref(default_branch)
            /\ last' = Answer("init", "None")
    /\ UNCHANGED <<objects, tree_hash, store, merging, wd, calls, tags, writers, lg>>

\* Repository.delete_repo: the repository directory is removed with all it holds
delete_repo ==
    /\ IF ~exists
       THEN /\ last' = NotFound("delete_repo")
            /\ UNCHANGED <<exists, objects, tree_hash, store, head, branches, merging, tags,
                           refs_dir>>
       ELSE /\ exists' = FALSE
            /\ refs_dir' = "missing"
            /\ objects' = <<>>
            /\ tree_hash' = <<>>
            /\ store' = {}
            /\ head' = NoRef
            /\ branches' = <<>>
            /\ tags' = <<>>
            /\ merging' = FALSE
            /\ last' = Answer("delete_repo", "None")
    /\ UNCHANGED <<wd, calls, writers, lg>>

NextLife ==
    \/ \E b \in {"", DEFAULT_BRANCH} : init(b)
    \/ delete_repo
    \/ \E b \in Branches \cup {""} : add_branch(b)
    \/ \E b \in Branches \cup {""} : delete_branch(b)
    \/ \E b \in Branches : \E h \in Hashes : update_ref(b, h)
    \/ \E author, message \in {"", "a"} : commit_working_dir(author, message)
    \/ enter_merge_state
    \/ \E target \in Hashes : merge(target)

SpecLife == InitLife /\ [][NextLife]_vars

----------------------------------------------------------------------------
(* The object store called directly: save and load of trees and commits *)

Commit(th, author, message, timestamp, parents) ==
    [tree_hash |-> th, author |-> author, message |-> message,
     timestamp |-> timestamp, parents |-> parents]

\* hash_object of a Commit: the hash of its fields
hash_object_commit(c) == <<"commit", c>>

\* save: the object is written under its hash; nothing is done when an
\* object is stored under that hash already
save_object(st, h) == IF h \in st THEN st ELSE st \cup {h}

\* load of an object of a kind: [ok, object]; fails when nothing is stored
\* under the hash or what is stored is of another kind
load_object(st, kind, h) ==
    IF h \in st /\ h[1] = kind THEN [ok |-> TRUE, object |-> h[2]]
    ELSE [ok |-> FALSE, object |-> <<>>]

\* the trees and commits saved and loaded directly
StoreTrees == {build_tree_from_fs(d) : d \in {x \in FlatDirs : DOMAIN x \subseteq EditedNames}}
RootCommits == {Commit(hash_object_tree(t), "a", "m", 1, <<>>) : t \in StoreTrees}
StoreCommits ==
    RootCommits \cup
        {Commit(hash_object_tree(t), "a", "m", 2,
                <<hash_object_commit(Commit(hash_object_tree(<<>>), "a", "m", 1, <<>>))>>) :
            t \in StoreTrees}
StoreHashes ==
    {hash_object_tree(t) : t \in StoreTrees} \cup {hash_object_commit(c) : c \in StoreCommits}

StoreCall(op, object, h, result) ==
    [op |-> op, object |-> object, hash |-> h, result |-> result, before |-> store]

save_tree(t) ==
    /\ exists
    /\ store' = save_object(store, hash_object_tree(t))
    /\ sc' = StoreCall("save_tree", t, hash_object_tree(t), "None")
    /\ UNCHANGED <<exists, objects, tree_hash, head, branches, merging, wd, last, fca, dc, cw, aside>>

save_commit(c) ==
    /\ exists
    /\ store' = save_object(store, hash_object_commit(c))
    /\ sc' = StoreCall("save_commit", c, hash_object_commit(c), "None")
    /\ UNCHANGED <<exists, objects, tree_hash, head, branches, merging, wd, last, fca, dc, cw, aside>>

load_tree(h) ==
    /\ exists
    /\ sc' = StoreCall("load_tree", load_object(store, "tree", h).object, h,
                       IF load_object(store, "tree", h).ok THEN "Tree" ELSE "RuntimeError")
    /\ UNCHANGED <<exists, objects, tree_hash, store, head, branches, merging, wd,
                   last, fca, dc, cw, aside>>

load_commit(h) ==
    /\ exists
    /\ sc' = StoreCall("load_commit", load_object(store, "commit", h).object, h,
                       IF load_object(store, "commit", h).ok THEN "Commit" ELSE "RuntimeError")
    /\ UNCHANGED <<exists, objects, tree_hash, store, head, branches, merging, wd,
                   last, fca, dc, cw, aside>>

NextStore ==
    \/ \E t \in StoreTrees : save_tree(t)
    \/ \E c \in StoreCommits : save_commit(c)
    \/ \E h \in StoreHashes : load_tree(h)
    \/ \E h \in StoreHashes : load_commit(h)

SpecStore == Init /\ [][NextStore]_vars

----------------------------------------------------------------------------
(* The operations that write to the object store, and those that must not *)

\* Repository.save_dir called on the working directory
save_dir_call ==
    /\ IF ~exists
       THEN /\ last' = NotFound("save_dir")
            /\ UNCHANGED store
       ELSE /\ store' = StoreAfterSaveDir(store, wd)
            /\ last' = Answer("save_dir", "HashRef")
    /\ UNCHANGED <<exists, objects, tree_hash, head, branches, merging, wd, calls, aside>>

\* Repository.save_file_content called on a file of the working directory
save_file_content_call(n) ==
    /\ n \in DOMAIN wd
    /\ wd[n][1] = "file"
    /\ IF ~exists
       THEN /\ last' = NotFound("save_file_content")
            /\ UNCHANGED store
       ELSE /\ store' = store \cup {hash_file(wd[n][2])}
            /\ last' = Answer("save_file_content", "Blob")
    /\ UNCHANGED <<exists, objects, tree_hash, head, branches, merging, wd, calls, aside>>

NextAppend ==
    \/ init(DEFAULT_BRANCH)
    \/ \E n \in EditedNames : save_file_content_call(n)
    \/ \E n \in EditedNames : \E c \in Contents : write_file(n, c)
    \/ \E n \in EditedNames : remove_file(n)
    \/ save_dir_call
    \/ Cardinality(DOMAIN objects) < MaxWdCommits /\ commit_working_dir("a", "m")
    \/ \E b \in Branches : add_branch(b)
    \/ \E b \in Branches : delete_branch(b)
    \/ \E b \in Branches : \E h \in DOMAIN objects : update_ref(b, h)
    \/ \E target \in DOMAIN objects : merge(target)

SpecAppend == Init /\ [][NextAppend]_vars

----------------------------------------------------------------------------
(* Repository.diff called on two commits and the working directory *)

\* Two commits on the default branch: the first holds directory d1, the
\* second, made from the working directory as it still is, holds d2.
InitDiff ==
    \E d1, d2 \in Dirs :
        /\ exists = TRUE
        /\ objects = <<<<>>, <<1>>>>
        /\ tree_hash = <<save_dir(d1), save_dir(d2)>>
        /\ store = save_dir_objects(d1) \cup save_dir_objects(d2)
        /\ head = branch_ref(DEFAULT_BRANCH)
        /\ branches = [b \in {DEFAULT_BRANCH} |-> 2]
        /\ merging = FALSE
        /\ wd = d2
        /\ last = Call("commit", 2, 1, None, "", "HashRef")
        /\ fca = NoCall
        /\ dc = NoDiffCall
        /\ sc = NoStoreCall
        /\ cw = NoCommit
        /\ tags = <<>>
        /\ writers = <<>>
        /\ lg = NoLog
        /\ refs_dir = IF exists THEN "dir" ELSE "missing"

\* the pairs of sources diff is called with
DiffSources ==
    {<<HashRef(1), PathSource>>, <<HashRef(1), HashRef(2)>>,
     <<HashRef(2), NoSource>>, <<PathSource, PathSource>>}

\* one call of Repository.diff, its answer kept in dc: the nodes it returns
\* or the exception it raises
DiffCall(source1, source2) ==
    /\ LET d == IF exists
                THEN diff(objects, tree_hash, store, branches, head, wd, source1, source2)
                ELSE [ok |-> FALSE, nodes |-> <<>>]
       IN dc' = [source1 |-> source1, source2 |-> source2, ok |-> d.ok, nodes |-> d.nodes,
                 error |-> IF ~exists THEN "RepositoryNotFoundError"
                           ELSE IF d.ok THEN "" ELSE "RepositoryError"]
    /\ UNCHANGED <<exists, objects, tree_hash, store, head, branches, merging, wd,
                   last, fca, sc, cw, aside>>

NextDiff == \E s \in DiffSources : DiffCall(s[1], s[2])

SpecDiff == InitDiff /\ [][NextDiff]_vars

----------------------------------------------------------------------------
(* Repository.diff on a store with objects that cannot be loaded *)

MaxLost == 1

\* the directories whose second name, when present, is a file
CorruptDirs == {d \in Dirs : Names[2] \notin DOMAIN d \/ d[Names[2]][1] = "file"}

InitCorrupt ==
    \E d1, d2 \in CorruptDirs :
        /\ exists = TRUE
        /\ objects = <<<<>>, <<1>>>>
        /\ tree_hash = <<save_dir(d1), save_dir(d2)>>
        /\ store = save_dir_objects(d1) \cup save_dir_objects(d2)
        /\ head = branch_ref(DEFAULT_BRANCH)
        /\ branches = [b \in {DEFAULT_BRANCH} |-> 2]
        /\ merging = FALSE
        /\ wd = d2
        /\ last = Call("commit", 2, 1, None, "", "HashRef")
        /\ fca = NoCall
        /\ dc = NoDiffCall
        /\ sc = NoStoreCall
        /\ cw = NoCommit
        /\ tags = <<>>
        /\ writers = <<>>
        /\ lg = NoLog
        /\ refs_dir = IF exists THEN "dir" ELSE "missing"

\* the trees the commits were saved with, and how many objects are lost
CommittedTrees == UNION {subtrees_by_hash(tree_hash[c][2]) : c \in DOMAIN tree_hash}
Lost ==
    (Cardinality(DOMAIN tree_hash) - Cardinality(DOMAIN objects))
        + Cardinality(CommittedTrees \ store)

\* the file of a tree object is overwritten: load_tree fails on its hash
corrupt_tree(h) ==
    /\ Lost < MaxLost
    /\ h \in store
    /\ store' = store \ {h}
    /\ UNCHANGED <<exists, objects, tree_hash, head, branches, merging, wd, last, calls, aside>>

\* the file of a commit object is overwritten: load_commit fails on its hash
corrupt_commit(c) ==
    /\ Lost < MaxLost
    /\ c \in DOMAIN objects
    /\ objects' = [x \in DOMAIN objects \ {c} |-> objects[x]]
    /\ UNCHANGED <<exists, tree_hash, store, head, branches, merging, wd, last, calls, aside>>

CorruptSources ==
    {<<HashRef(1), HashRef(2)>>, <<HashRef(1), PathSource>>, <<PathSource, HashRef(1)>>}

NextCorrupt ==
    \/ \E h \in CommittedTrees : corrupt_tree(h)
    \/ \E c \in Commits : corrupt_commit(c)
    \/ \E s \in CorruptSources : DiffCall(s[1], s[2])

SpecCorrupt == InitCorrupt /\ [][NextCorrupt]_vars

----------------------------------------------------------------------------
(* Repository.resolve_ref called with plain strings *)

\* the string of HASH_LENGTH hash characters that spells a hash
HashTexts == <<"h1", "h2", "h3", "h4", "h5">>
IsHashText(s) == \E h \in DOMAIN HashTexts : HashTexts[h] = s
HashOfText(s) == CHOOSE h \in DOMAIN HashTexts : HashTexts[h] = s

\* a path below the refs directory as its components; other strings have
\* no separator
RefPath(s) ==
    IF s = "heads/main" THEN <<"heads", "main">>
    ELSE IF s = "heads/dev" THEN <<"heads", "dev">>
    ELSE <<s>>

\* Repository.refs: SymRef(ref_file.name) for every file below the refs
\* directory at any depth: the branch files of refs/heads and the tag files
\* of refs/tags
refs(brs, tgs) == DOMAIN brs \cup DOMAIN tgs

\* read_ref(refs_dir / name): [ok, hash]; the file must exist, and the
\* files below refs are those of refs/heads
read_ref(brs, name) ==
    LET path == RefPath(name)
    IN IF Len(path) = 2 /\ path[1] = "heads" /\ path[2] \in DOMAIN brs
       THEN [ok |-> TRUE, hash |-> brs[path[2]]]
       ELSE [ok |-> FALSE, hash |-> None]

\* str.upper on the strings resolve_ref is called with
upper(s) ==
    LET table == ("HEAD" :> "HEAD") @@ ("head" :> "HEAD") @@ ("Head" :> "HEAD")
                     @@ ("hEAD" :> "HEAD") @@ ("main" :> "MAIN") @@ ("dev" :> "DEV")
                     @@ ("heads/main" :> "HEADS/MAIN") @@ ("heads/dev" :> "HEADS/DEV")
                     @@ ("nothing" :> "NOTHING") @@ ("v1.0" :> "V1.0")
                     @@ ("v2.0" :> "V2.0") @@ ("h1" :> "H1") @@ ("h2" :> "H2")
                     @@ ("h3" :> "H3") @@ ("h4" :> "H4") @@ ("h5" :> "H5")
    IN table[s]

\* Repository.resolve_ref on a str: [result, hash]
resolve_ref_str(brs, tgs, hd, ref) ==
    IF upper(ref) = "HEAD"
    THEN LET r == resolve_ref(brs, hd)
         IN IF ~r.ok THEN [result |-> HeadError(brs, hd), hash |-> None]
            ELSE [result |-> IF r.hash = None THEN "None" ELSE "HashRef", hash |-> r.hash]
    ELSE IF refs_dir # "dir" THEN [result |-> "RepositoryError", hash |-> None]
    ELSE IF ref \in refs(brs, tgs)
    THEN LET r == read_ref(brs, ref)
         IN IF ~r.ok THEN [result |-> MissingRefFile, hash |-> None]
            ELSE [result |-> IF r.hash = None THEN "None" ELSE "HashRef", hash |-> r.hash]
    ELSE IF IsHashText(ref) THEN [result |-> "HashRef", hash |-> HashOfText(ref)]
    ELSE [result |-> "RefError", hash |-> None]

\* one call of resolve_ref with a string
ResolveRef(ref) ==
    /\ LET r == IF exists THEN resolve_ref_str(branches, tags, head, ref)
                ELSE [result |-> "RepositoryNotFoundError", hash |-> None]
       IN last' = [Call("resolve_ref", r.hash, None, None, "", r.result) EXCEPT !.name = ref]
    /\ UNCHANGED <<exists, objects, tree_hash, store, head, branches, merging, wd, calls, aside>>

\* one call of Repository.refs: RepositoryError unless refs is a directory
RefsCall ==
    /\ last' = IF ~exists THEN NotFound("refs")
               ELSE IF refs_dir # "dir" THEN Answer("refs", "RepositoryError")
               ELSE Answer("refs", "list")
    /\ UNCHANGED <<exists, objects, tree_hash, store, head, branches, merging, wd, calls, aside>>

\* the refs directory is removed with the ref files below it (rmtree), and
\* with touch a file is put in its place
remove_refs_dir(touch) ==
    /\ exists
    /\ refs_dir = "dir"
    /\ refs_dir' = IF touch THEN "file" ELSE "missing"
    /\ branches' = <<>>
    /\ tags' = <<>>
    /\ last' = Answer("rmtree", "None")
    /\ UNCHANGED <<exists, objects, tree_hash, store, head, merging, wd, calls, writers, lg>>

ResolveBranches == {"dev", HashTexts[1]}
ResolveInputs ==
    {"HEAD", "head", "Head", "hEAD", "main", "dev", "heads/main", "nothing"}
        \cup Range(HashTexts)

NextResolve ==
    \/ \E b \in ResolveBranches : add_branch(b)
    \/ \E b \in ResolveBranches : delete_branch(b)
    \/ \E b \in DOMAIN branches : \E h \in DOMAIN objects : update_ref(b, h)
    \/ Cardinality(DOMAIN objects) < MaxWdCommits /\ commit_working_dir("a", "m")
    \/ \E ref \in ResolveInputs : ResolveRef(ref)
    \/ RefsCall
    \/ \E touch \in BOOLEAN : remove_refs_dir(touch)

SpecResolve == Init /\ [][NextResolve]_vars

----------------------------------------------------------------------------
(* The refs under update_ref with any Ref *)

\* write_ref: what the ref file holds after a Ref is written to it
RefValue(ref) == IF ref.kind = "hash" THEN ref.hash ELSE SymValue(ref.name)

\* one call of Repository.head_commit
HeadCommitCall ==
    /\ LET r == head_commit(branches, head)
       IN last' = IF ~exists THEN NotFound("head_commit")
                  ELSE IF ~r.ok
                  THEN Answer("head_commit", HeadError(branches, head))
                  ELSE Call("head_commit", r.hash, None, None, "",
                            IF r.hash = None THEN "None" ELSE "HashRef")
    /\ UNCHANGED <<exists, objects, tree_hash, store, head, branches, merging, wd, calls, aside>>

NextRefs ==
    \/ init(DEFAULT_BRANCH)
    \/ \E b \in Branches : add_branch(b)
    \/ \E b \in Branches : delete_branch(b)
    \/ \E b \in Branches :
          \E new_ref \in {HashRef(h) : h \in DOMAIN objects}
                            \cup {branch_ref(x) : x \in Branches} :
              update_ref(b, RefValue(new_ref))
    \/ Cardinality(DOMAIN objects) < MaxWdCommits /\ commit_working_dir("a", "m")
    \/ \E target \in DOMAIN objects : merge(target)
    \/ HeadCommitCall

SpecRefs == Init /\ [][NextRefs]_vars

----------------------------------------------------------------------------
(* Trees built from a directory whose entries are listed in some order *)

\* sorted(..., key=lambda p: p.name)
sorted_by_name(names) == SelectSeq(Names, LAMBDA n : n \in Range(names))

\* A Tree that keeps its records in the order they were inserted
Tree_insertion_order(records) == records

\* Tree(records): the records keyed by name, whatever order the dict they
\* came in had
Tree(records) ==
    [n \in {records[i].name : i \in DOMAIN records} |->
        CHOOSE r \in Range(records) : r.name = n]

\* build_tree_from_fs on a listing order: _build_dir_tree sorts the entries
\* of each directory, the subdirectories are built before their parent
RECURSIVE build_dir_tree(_, _)
build_dir_tree(d, order) ==
    LET names == sorted_by_name(iterdir(d, order))
    IN Tree([i \in DOMAIN names |->
                IF d[names[i]][1] = "file"
                THEN TreeRecord("blob", hash_file(d[names[i]][2]), names[i])
                ELSE TreeRecord("tree",
                         hash_object_tree(build_dir_tree(d[names[i]][2], order)),
                         names[i])])

\* Repository.save_dir on a listing order: the records are inserted as
\* iterdir lists them
RECURSIVE save_dir_listed(_, _)
save_dir_listed(d, order) ==
    LET names == iterdir(d, order)
    IN Tree([i \in DOMAIN names |->
                IF d[names[i]][1] = "file"
                THEN TreeRecord("blob", hash_file(d[names[i]][2]), names[i])
                ELSE TreeRecord("tree",
                         hash_object_tree(save_dir_listed(d[names[i]][2], order)),
                         names[i])])

\* A tree builder that saves the trees it builds
StoreAfterBuild_saving(st, d) == st \cup subtrees_by_hash(build_tree_from_fs(d))

\* the store after build_tree_from_fs: nothing is written
StoreAfterBuild(st, d) == st

\* a fresh repository and any directory of files as its working directory
InitTree ==
    \E d \in Dirs :
        /\ exists = TRUE
        /\ objects = <<>>
        /\ tree_hash = <<>>
        /\ store = {}
        /\ head = branch_ref(DEFAULT_BRANCH)
        /\ branches = [b \in {DEFAULT_BRANCH} |-> None]
        /\ merging = FALSE
        /\ wd = d
        /\ last = Answer("init", "None")
        /\ fca = NoCall
        /\ dc = NoDiffCall
        /\ sc = NoStoreCall
        /\ cw = NoCommit
        /\ tags = <<>>
        /\ writers = <<>>
        /\ lg = NoLog
        /\ refs_dir = IF exists THEN "dir" ELSE "missing"

\* one call of build_tree_from_fs on the working directory
BuildTreeCall(order) ==
    /\ store' = StoreAfterBuild(store, wd)
    /\ sc' = [op |-> "build_tree_from_fs", object |-> build_dir_tree(wd, order),
              hash |-> hash_object_tree(build_dir_tree(wd, order)),
              result |-> "Tree", before |-> store, order |-> order]
    /\ UNCHANGED <<exists, objects, tree_hash, head, branches, merging, wd, last, fca, dc, cw, aside>>

\* one call of Repository.save_dir on the working directory
SaveDirCall(order) ==
    /\ exists
    /\ store' = StoreAfterSaveDir(store, wd)
    /\ sc' = [op |-> "save_dir", object |-> save_dir_listed(wd, order),
              hash |-> hash_object_tree(save_dir_listed(wd, order)),
              result |-> "HashRef", before |-> store, order |-> order]
    /\ UNCHANGED <<exists, objects, tree_hash, head, branches, merging, wd, last, fca, dc, cw, aside>>

NextTree ==
    \/ \E order \in EntryOrders : BuildTreeCall(order)
    \/ \E order \in EntryOrders : SaveDirCall(order)
    \/ Cardinality(DOMAIN objects) < MaxWdCommits /\ commit_working_dir("a", "m")

SpecTree == InitTree /\ [][NextTree]_vars

----------------------------------------------------------------------------
(* Tags: create_tag, delete_tag, and update_ref on the refs under refs/tags *)

TAGS_DIR == "tags"

HEADS_DIR == "heads"

TagNames == {"v1.0", "v2.0"}

\* Repository.create_tag: the name must not be empty, the commit must be in
\* the store and no tag of that name may exist; then refs/tags/<name> holds
\* the hash
create_tag(tag_name, commit_hash) ==
    /\ IF ~exists
       THEN /\ last' = [NotFound("create_tag") EXCEPT !.name = tag_name]
            /\ UNCHANGED tags
       ELSE IF tag_name = ""
       THEN /\ last' = Answer("create_tag", "ValueError")
            /\ UNCHANGED tags
       ELSE IF commit_hash \notin DOMAIN objects \/ tag_name \in DOMAIN tags
       THEN /\ last' = [Call("create_tag", commit_hash, None, None, "", "RepositoryError")
                           EXCEPT !.name = tag_name]
            /\ UNCHANGED tags
       ELSE /\ tags' = [t \in DOMAIN tags \cup {tag_name} |->
                           IF t = tag_name THEN commit_hash ELSE tags[t]]
            /\ last' = [Call("create_tag", commit_hash, None, None, "", "None")
                           EXCEPT !.name = tag_name]
    /\ UNCHANGED <<exists, objects, tree_hash, store, head, branches, merging, wd,
                   calls, writers, lg, refs_dir>>

\* Repository.delete_tag: the tag file is removed; a missing tag is an error
delete_tag(tag_name) ==
    /\ IF ~exists
       THEN /\ last' = [NotFound("delete_tag") EXCEPT !.name = tag_name]
            /\ UNCHANGED tags
       ELSE IF tag_name \notin DOMAIN tags
       THEN /\ last' = [Answer("delete_tag", "RepositoryError") EXCEPT !.name = tag_name]
            /\ UNCHANGED tags
       ELSE /\ tags' = [t \in DOMAIN tags \ {tag_name} |-> tags[t]]
            /\ last' = [Answer("delete_tag", "None") EXCEPT !.name = tag_name]
    /\ UNCHANGED <<exists, objects, tree_hash, store, head, branches, merging, wd,
                   calls, writers, lg, refs_dir>>

\* Repository.update_ref called with ref_name = TAGS_DIR/<tag_name>: the file
\* must exist, then new_ref is written to it
update_ref_in(ref_dir, name, h) ==
    IF ref_dir = TAGS_DIR
    THEN /\ IF ~exists
            THEN /\ last' = [NotFound("update_ref") EXCEPT !.name = name]
                 /\ UNCHANGED tags
            ELSE IF name \notin DOMAIN tags
            THEN /\ last' = [Answer("update_ref", "RepositoryError") EXCEPT !.name = name]
                 /\ UNCHANGED tags
            ELSE /\ tags' = [tags EXCEPT ![name] = h]
                 /\ last' = [Call("update_ref", h, None, None, "", "None")
                                EXCEPT !.name = name]
         /\ UNCHANGED <<exists, objects, tree_hash, store, head, branches, merging, wd,
                        calls, writers, lg, refs_dir>>
    ELSE update_ref(name, h)

NextTags ==
    \/ \E tag_name \in TagNames \cup {""} : \E commit_hash \in Commits :
          create_tag(tag_name, commit_hash)
    \/ \E tag_name \in TagNames : delete_tag(tag_name)
    \/ \E tag_name \in TagNames : \E h \in DOMAIN objects :
          update_ref_in(TAGS_DIR, tag_name, h)
    \/ \E b \in Branches : \E h \in DOMAIN objects : update_ref_in(HEADS_DIR, b, h)
    \/ Cardinality(DOMAIN objects) < MaxWdCommits /\ commit_working_dir("a", "m")
    \/ \E ref \in TagNames : ResolveRef(ref)

SpecTags == Init /\ [][NextTags]_vars

----------------------------------------------------------------------------
(* Two processes that run commit_working_dir on one repository, unsynchronized *)

Writers == {"w1", "w2"}

\* a process that has not called commit_working_dir
Idle == [pc |-> 0, branch |-> "", parent |-> None, tree |-> save_dir(EmptyDir),
         commit |-> None, order |-> 0, writes |-> <<>>]

\* the position of a process whose call has returned
Returned == Len(commit_steps) + 1

\* the processes between the read of HEAD and save_commit
Pending == {p \in Writers : writers[p].pc \in 1..2}

\* the number of ref writes made so far: every call writes the ref once, and
\* the calls that read one parent build at most one commit per process
RefWrites == CHOOSE n \in 0..(Cardinality(Writers) * NumHashes) :
                 /\ \A p \in Writers : writers[p].order <= n
                 /\ \E p \in Writers : writers[p].order = n

\* An update_ref that writes only if the branch still holds the commit read
\* as parent
BranchesAfterUpdate_compare_and_swap(brs, b, expected, c) ==
    IF b \in DOMAIN brs /\ brs[b] = expected THEN [brs EXCEPT ![b] = c] ELSE brs

\* update_ref from commit_working_dir: the branch file is overwritten with
\* the new commit, whatever it holds
BranchesAfterUpdate(brs, b, expected, c) ==
    IF b \in DOMAIN brs THEN [brs EXCEPT ![b] = c] ELSE brs

\* a repository with one commit on the default branch, HEAD on that branch
InitRace ==
    /\ exists = TRUE
    /\ objects = <<<<>>>>
    /\ tree_hash = <<save_dir(EmptyDir)>>
    /\ store = save_dir_objects(EmptyDir)
    /\ head = branch_ref(DEFAULT_BRANCH)
    /\ branches = [b \in {DEFAULT_BRANCH} |-> 1]
    /\ merging = FALSE
    /\ wd = EmptyDir
    /\ last = Call("commit", 1, None, None, "", "HashRef")
    /\ fca = NoCall
    /\ dc = NoDiffCall
    /\ sc = NoStoreCall
    /\ cw = NoCommit
    /\ tags = <<>>
    /\ writers = [p \in Writers |-> Idle]
    /\ lg = NoLog
    /\ refs_dir = IF exists THEN "dir" ELSE "missing"

\* process p calls commit_working_dir: the checks, then HEAD and the commit
\* it resolves to are read
writer_begin(p) ==
    /\ writers[p].pc \in {0, Returned}
    /\ exists
    /\ LET parent_commit_ref == head_commit(branches, head)
       IN /\ parent_commit_ref.ok
          /\ writers' = [writers EXCEPT ![p] =
                 [pc |-> 1,
                  branch |-> IF commit_moves_branch(head) THEN head.name ELSE "",
                  parent |-> parent_commit_ref.hash,
                  tree |-> @.tree, commit |-> None, order |-> @.order,
                  writes |-> <<>>]]
    /\ last' = [Answer("commit_begin", "None") EXCEPT !.name = p]
    /\ UNCHANGED <<exists, objects, tree_hash, store, head, branches, merging, wd,
                   calls, tags, lg, refs_dir>>

\* the next write of process p: the objects of save_dir one by one, the
\* working directory read at the first of them, then save_commit of the commit
\* built on the tree and the parent read, then update_ref of the branch read
writer_step(p) ==
    /\ writers[p].pc \in 1..Len(commit_steps)
    /\ LET w == writers[p]
       IN CASE commit_steps[w.pc] = "save_dir" ->
                 /\ \E order \in EntryOrders :
                        LET writes == IF w.writes = <<>>
                                      THEN save_dir_walk(wd, order, <<<<>>>>, {}, <<>>)
                                      ELSE w.writes
                        IN /\ store' = store \cup {Head(writes)}
                           /\ writers' =
                                  IF Len(writes) > 1
                                  THEN [writers EXCEPT ![p].writes = Tail(writes)]
                                  ELSE [writers EXCEPT ![p].pc = @ + 1,
                                                       ![p].writes = <<>>,
                                                       ![p].tree = Head(writes)]
                 /\ UNCHANGED <<objects, tree_hash, branches>>
            [] commit_steps[w.pc] = "save_commit" ->
                 /\ \E c \in CommitRefs(objects, tree_hash, commit_parents(w.parent),
                                          w.tree) :
                        /\ objects' = SavedCommits(objects, c, commit_parents(w.parent))
                        /\ tree_hash' = SavedTreeHashes(tree_hash, c, w.tree)
                        /\ writers' = [writers EXCEPT ![p].pc = @ + 1, ![p].commit = c]
                 /\ UNCHANGED <<store, branches>>
            [] commit_steps[w.pc] = "update_ref" ->
                 /\ branches' = BranchesAfterUpdate(branches, w.branch, w.parent, w.commit)
                 /\ writers' = [writers EXCEPT ![p].pc = @ + 1,
                                               ![p].order = RefWrites + 1]
                 /\ UNCHANGED <<objects, tree_hash, store>>
    /\ last' = [Answer("commit_step", "None") EXCEPT !.name = p]
    /\ UNCHANGED <<exists, head, merging, wd, calls, tags, lg, refs_dir>>

NextRace ==
    \/ \E n \in EditedNames : \E c \in Contents : write_file(n, c)
    \/ \E p \in Writers :
          /\ Cardinality(DOMAIN objects) + Cardinality(Pending) < NumHashes
          /\ writer_begin(p)
    \/ \E p \in Writers : writer_step(p)

SpecRace == InitRace /\ [][NextRace]_vars

----------------------------------------------------------------------------
(* merge on a store where any commit may be missing *)

NextLoad ==
    \/ \E c \in Hashes : \E ps \in ParentLists(c) : StoreCommit(c, ps)
    \/ \E b \in Branches : \E h \in Hashes : update_ref(b, h)
    \/ \E target \in Hashes : merge(target)

SpecLoad == Init /\ [][NextLoad]_vars

----------------------------------------------------------------------------
(* Repository.diff on directories three levels deep that hold one content *)

\* the content every file of these directories has
OneContent == CHOOSE c \in Contents : \A x \in Contents : c <= x

\* the directories of files with that content
OneContentDirs == DirsOver({File(OneContent)})

\* a directory with a file under the first name, a directory of files under
\* the second, either of them possibly missing
MiddleDirs ==
    {d \in DirsOver({File(OneContent)} \cup {Dir(e) : e \in OneContentDirs}) :
        /\ Names[1] \in DOMAIN d => d[Names[1]][1] = "file"
        /\ Names[2] \in DOMAIN d => d[Names[2]][1] = "dir"}

\* a root with a directory of files under the first name and a directory with
\* a subdirectory under the second
DeepDirs ==
    {[n \in Range(Names) |-> IF n = Names[1] THEN Dir(s) ELSE Dir(t)] :
        s \in OneContentDirs, t \in MiddleDirs}

\* Two commits on the default branch, the first holding d1, the second, made
\* from the working directory as it still is, holding d2.
InitDeep ==
    \E d1, d2 \in DeepDirs :
        /\ exists = TRUE
        /\ objects = <<<<>>, <<1>>>>
        /\ tree_hash = <<save_dir(d1), save_dir(d2)>>
        /\ store = save_dir_objects(d1) \cup save_dir_objects(d2)
        /\ head = branch_ref(DEFAULT_BRANCH)
        /\ branches = [b \in {DEFAULT_BRANCH} |-> 2]
        /\ merging = FALSE
        /\ wd = d2
        /\ last = Call("commit", 2, 1, None, "", "HashRef")
        /\ fca = NoCall
        /\ dc = NoDiffCall
        /\ sc = NoStoreCall
        /\ cw = NoCommit
        /\ tags = <<>>
        /\ writers = <<>>
        /\ lg = NoLog
        /\ refs_dir = IF exists THEN "dir" ELSE "missing"

NextDeep == \E source \in {HashRef(2), PathSource} : DiffCall(HashRef(1), source)

SpecDeep == InitDeep /\ [][NextDeep]_vars

----------------------------------------------------------------------------
(* Repository.log *)

\* A log that follows the last parent of every commit
log_parent_last(parents) == IF parents # <<>> THEN parents[Len(parents)] ELSE None

\* HashRef(commit.parents[0]) if commit.parents else None
log_parent(parents) == IF parents # <<>> THEN parents[1] ELSE None

\* the generator has ended: it returned, or raised error
log_end(l, error) == [l EXCEPT !.pc = "ended", !.ok = (error = ""), !.error = error]

\* while current_hash: the commit is loaded and yielded, its first parent
\* being the commit to load when the generator is resumed; the generator
\* returns when there is no commit to load, and raises RepositoryError when
\* the commit cannot be loaded
log_yield(l, objs, current_hash) ==
    IF current_hash = None THEN log_end(l, "")
    ELSE IF ~CanLoad(objs, current_hash) THEN log_end(l, "RepositoryError")
    ELSE [l EXCEPT !.pc = "yielded",
                   !.entries = Append(@, current_hash),
                   !.current = log_parent(objs[current_hash])]

\* the call of Repository.log: the repository is checked and the generator
\* is made, none of its body has run
LogCall(tip) ==
    /\ lg' = IF ~exists
             THEN [tip |-> tip, pc |-> "ended", ok |-> FALSE, entries |-> <<>>,
                   current |-> None, error |-> "RepositoryNotFoundError"]
             ELSE [tip |-> tip, pc |-> "called", ok |-> TRUE, entries |-> <<>>,
                   current |-> None, error |-> ""]
    /\ UNCHANGED <<exists, objects, tree_hash, store, head, branches, merging, wd,
                   last, calls, tags, writers, refs_dir>>

\* next() on the generator: the first one resolves the tip, HEAD when none
\* is given, and runs to the first yield; the later ones run from the yield
\* to the next one, or to the end
log_next ==
    /\ lg.pc \in {"called", "yielded"}
    /\ lg' = IF lg.pc = "yielded" THEN log_yield(lg, objects, lg.current)
             ELSE IF ~exists THEN log_end(lg, "RepositoryNotFoundError")
             ELSE LET tip == IF lg.tip = NoRef THEN head ELSE lg.tip
                      current_hash == resolve_ref(branches, tip)
                  IN IF ~current_hash.ok THEN log_end(lg, HeadError(branches, tip))
                     ELSE log_yield(lg, objects, current_hash.hash)
    /\ UNCHANGED <<exists, objects, tree_hash, store, head, branches, merging, wd,
                   last, calls, tags, writers, refs_dir>>

\* the tips log is called with are none (HEAD), a hash and a branch; one
\* generator is consumed at a time, the repository changing between two of
\* its entries
NextLog ==
    \/ exists /\ \E c \in Hashes : \E ps \in ParentLists(c) : StoreCommit(c, ps)
    \/ \E b \in Branches : \E h \in Hashes : update_ref(b, h)
    \/ delete_repo
    \/ /\ lg.pc \in {"none", "ended"}
       /\ \E tip \in {NoRef} \cup {HashRef(h) : h \in Hashes}
                        \cup {branch_ref(b) : b \in Branches} : LogCall(tip)
    \/ log_next

SpecLog == Init /\ [][NextLog]_vars

----------------------------------------------------------------------------
(* The order in which build_tree_from_fs builds the trees of a hierarchy *)

\* sorted(dir_path.iterdir()) restricted to the subdirectories
sorted_subdirs(d) == SelectSeq(Names, LAMBDA n : n \in DOMAIN d /\ d[n][1] = "dir")

\* the stack entries pushed for the subdirectories of the directory at path,
\* in reversed name order
pushed_subdirs(d, path) ==
    LET subs == sorted_subdirs(DirAt(d, path))
    IN [i \in 1..Len(subs) |->
           [path |-> Append(path, subs[Len(subs) + 1 - i]), expanded |-> FALSE]]

\* _build_dir_tree reads hashes_by_path[item] for every subdirectory: a
\* KeyError unless the subdirectory has been built
subdirs_built(d, path, built) ==
    \A n \in Range(sorted_subdirs(DirAt(d, path))) : Append(path, n) \in Range(built)

\* A walk that builds a directory when it is first popped
RECURSIVE build_tree_walk_parent_first(_, _, _)
build_tree_walk_parent_first(d, stack, built) ==
    IF stack = <<>> THEN [ok |-> TRUE, built |-> built]
    ELSE LET top == stack[Len(stack)]
             rest == SubSeq(stack, 1, Len(stack) - 1)
         IN IF ~subdirs_built(d, top.path, built)
            THEN [ok |-> FALSE, built |-> built]
            ELSE build_tree_walk_parent_first(d, rest \o pushed_subdirs(d, top.path),
                                              Append(built, top.path))

\* the loop of build_tree_from_fs: [ok, built]; a directory popped for the
\* first time is pushed back as expanded under its subdirectories, a
\* directory popped as expanded is built; built lists the paths in the
\* order _build_dir_tree is called on them
RECURSIVE build_tree_walk(_, _, _)
build_tree_walk(d, stack, built) ==
    IF stack = <<>> THEN [ok |-> TRUE, built |-> built]
    ELSE LET top == stack[Len(stack)]
             rest == SubSeq(stack, 1, Len(stack) - 1)
         IN IF top.expanded
            THEN IF ~subdirs_built(d, top.path, built)
                 THEN [ok |-> FALSE, built |-> built]
                 ELSE build_tree_walk(d, rest, Append(built, top.path))
            ELSE build_tree_walk(d,
                     Append(rest, [path |-> top.path, expanded |-> TRUE])
                         \o pushed_subdirs(d, top.path),
                     built)

\* the walk from the root: deque([(root, False)])
build_order(d) == build_tree_walk(d, <<[path |-> <<>>, expanded |-> FALSE]>>, <<>>)

\* the keys subtrees_by_hash holds when the walk is over: the hash of the
\* tree of every directory built
walk_subtrees(d) ==
    {hash_object_tree(build_tree_from_fs(DirAt(d, p))) : p \in Range(build_order(d).built)}

----------------------------------------------------------------------------
(* Repository.diff of a commit against a working directory that was never saved *)

\* one commit of a directory; the working directory holds another hierarchy,
\* none of its trees saved by the repository
InitWalk ==
    \E d1, d2 \in DeepDirs :
        /\ exists = TRUE
        /\ objects = <<<<>>>>
        /\ tree_hash = <<save_dir(d1)>>
        /\ store = save_dir_objects(d1)
        /\ head = branch_ref(DEFAULT_BRANCH)
        /\ branches = [b \in {DEFAULT_BRANCH} |-> 1]
        /\ merging = FALSE
        /\ wd = d2
        /\ last = Call("commit", 1, None, None, "", "HashRef")
        /\ fca = NoCall
        /\ dc = NoDiffCall
        /\ sc = NoStoreCall
        /\ cw = NoCommit
        /\ tags = <<>>
        /\ writers = <<>>
        /\ lg = NoLog
        /\ refs_dir = IF exists THEN "dir" ELSE "missing"

WalkSources == {<<HashRef(1), PathSource>>, <<PathSource, HashRef(1)>>, <<NoSource, PathSource>>}

NextWalk == \E s \in WalkSources : DiffCall(s[1], s[2])

SpecWalk == InitWalk /\ [][NextWalk]_vars

----------------------------------------------------------------------------
(* The working directory edited, saved, committed and compared with HEAD *)

NextAgree ==
    \/ \E n \in EditedNames : \E c \in Contents : write_file(n, c)
    \/ Cardinality(DOMAIN objects) < MaxWdCommits /\ commit_working_dir("a", "m")
    \/ DiffCall(NoSource, PathSource)

SpecAgree == InitTree /\ [][NextAgree]_vars

----------------------------------------------------------------------------
(* Branches added and deleted between commits *)

NextBranch ==
    \/ \E b \in Branches \cup {""} : add_branch(b)
    \/ \E b \in Branches \cup {""} : delete_branch(b)
    \/ \E author, message \in {"", "a"} : commit_working_dir(author, message)

SpecBranch == Init /\ [][NextBranch]_vars

----------------------------------------------------------------------------
(* Ancestry in the parent graph, stated apart from the walks of the code *)

RECURSIVE Closure(_, _)
Closure(objs, S) ==
    LET N == S \cup UNION {Range(objs[x]) : x \in S \cap DOMAIN objs}
    IN IF N = S THEN S ELSE Closure(objs, N)

\* c and every commit reachable from c over parent edges
AncestorsOrSelf(objs, c) == Closure(objs, {c})

\* c names a commit, and every commit reachable from it is stored
AllStored(objs, c) == c # None /\ AncestorsOrSelf(objs, c) \subseteq DOMAIN objs

StrictAncestor(objs, x, y) == x # y /\ x \in AncestorsOrSelf(objs, y)

CommonAncestors(objs, a, b) == AncestorsOrSelf(objs, a) \cap AncestorsOrSelf(objs, b)

----------------------------------------------------------------------------
(* Claims about merge, checked under Spec *)

\* C1: when HEAD's commit is a strict ancestor of target (all commits stored,
\* merge commits with parents in any order), merge classifies FAST_FORWARD.
C1_HeadAncestorIsFastForward ==
    (/\ last.op = "merge"
     /\ AllStored(objects, last.head)
     /\ AllStored(objects, last.target)
     /\ StrictAncestor(objects, last.head, last.target))
        => last.case = "FAST_FORWARD"

\* C2: when target is a strict ancestor of HEAD's commit (all commits stored),
\* merge classifies UP_TO_DATE and the merge base found is target.
C2_TargetAncestorIsUpToDate ==
    (/\ last.op = "merge"
     /\ AllStored(objects, last.head)
     /\ StrictAncestor(objects, last.target, last.head))
        => (last.case = "UP_TO_DATE" /\ last.base = last.target)

\* a merge of the root into a HEAD that is a merge commit two edges above it
C2_Witness ==
    /\ last.op = "merge"
    /\ AllStored(objects, last.head)
    /\ StrictAncestor(objects, last.target, last.head)
    /\ Len(objects[last.head]) = 2
    /\ objects[last.target] = <<>>
    /\ \E p \in Range(objects[last.head]) : StrictAncestor(objects, last.target, p)
    /\ last.case = "UP_TO_DATE"

\* C3 as stated: after a merge classified THREE_WAY the merge-in-progress
\* marker is present.
C3_MarkerPresentAfterThreeWay ==
    (last.op = "merge" /\ last.case = "THREE_WAY") => is_merging(exists, merging).value

\* C4: from a repository that is not merging, after any merge, whatever its
\* classification and whether it returns or raises, is_merging() is False;
\* a three-way merge fails as not implemented.
C4_NotMergingAfterMerge ==
    [][(last'.op = "merge" /\ ~is_merging(exists, merging).value)
          => (/\ ~is_merging(exists', merging').value
              /\ last'.case = "THREE_WAY" => last'.result = "NotImplementedError")]_vars

\* a three-way merge attempted on a branch, the repository not merging after it
C4_Witness ==
    /\ last.op = "merge"
    /\ last.case = "THREE_WAY"
    /\ head.kind = "sym"
    /\ ~is_merging(exists, merging).value

\* C5: unless the classification is FAST_FORWARD (DISCONNECTED, UP_TO_DATE,
\* THREE_WAY, or a failure), merge leaves HEAD, the commit HEAD resolves to
\* and every branch ref as they were.
C5_RefsChangeOnlyOnFastForward ==
    [][(last'.op = "merge" /\ last'.case # "FAST_FORWARD")
          => (/\ head' = head
              /\ branches' = branches
              /\ head_commit(branches', head') = head_commit(branches, head))]_vars

\* an up-to-date merge of a strict ancestor, with two branches in the repository
C5_Witness ==
    /\ last.op = "merge"
    /\ last.case = "UP_TO_DATE"
    /\ last.target # last.head
    /\ Cardinality(DOMAIN branches) = 2

\* C6: after a merge classified FAST_FORWARD HEAD resolves to target: a
\* symbolic HEAD still names its branch and that branch ref holds target, a
\* detached HEAD holds target itself.
C6_FastForwardMovesHead ==
    [][(last'.op = "merge" /\ last'.case = "FAST_FORWARD")
          => (/\ head_commit(branches', head') = [ok |-> TRUE, hash |-> last'.target]
              /\ head.kind = "sym" =>
                    (head' = head /\ branches'[head.name] = last'.target)
              /\ head.kind = "hash" =>
                    (head' = HashRef(last'.target) /\ branches' = branches))]_vars

\* C7: merge returns its classification: DISCONNECTED, UP_TO_DATE or
\* FAST_FORWARD is the value of the call.
C7_MergeReturnsClassification ==
    (last.op = "merge" /\ last.case \in {"DISCONNECTED", "UP_TO_DATE", "FAST_FORWARD"})
        => last.result = last.case

\* C10: entering the merge state with the marker present fails and keeps the
\* marker; with no marker it succeeds and creates it; either way is_merging()
\* is true afterwards.
C10_EnterMergeState ==
    [][last'.op = "enter_merge"
          => (/\ is_merging(exists', merging').value
              /\ is_merging(exists, merging).value => last'.result = "RepositoryError"
              /\ ~is_merging(exists, merging).value => last'.result = "None")]_vars

\* a second attempt to enter the merge state has failed
C10_Witness ==
    /\ last.op = "enter_merge"
    /\ last.result = "RepositoryError"
    /\ is_merging(exists, merging).value

----------------------------------------------------------------------------
(* Claims about find_common_ancestor, checked under SpecFCA *)

\* C8: on commits whose reachable commits are all stored, find_common_ancestor
\* returns an ancestor-or-self of both a and b whenever one exists, and None
\* exactly when the two ancestor-or-self sets are disjoint.
C8_ReturnsCommonAncestor ==
    (AllStored(objects, fca.a) /\ AllStored(objects, fca.b))
        => (/\ fca.ok
            /\ fca.hash # None => fca.hash \in CommonAncestors(objects, fca.a, fca.b)
            /\ fca.hash = None <=> CommonAncestors(objects, fca.a, fca.b) = {})

\* a merge commit b whose second parent alone leads to the common ancestor
C8_Witness ==
    /\ AllStored(objects, fca.a)
    /\ AllStored(objects, fca.b)
    /\ Len(objects[fca.b]) = 2
    /\ fca.hash \notin {None, fca.a, fca.b}
    /\ fca.hash \notin AncestorsOrSelf(objects, objects[fca.b][1])

\* C9: the commit find_common_ancestor returns is a lowest common ancestor:
\* no other common ancestor of a and b is a strict descendant of it.  Stated
\* for the common ancestors other than a and b themselves, the reading under
\* which the statement is weakest.
C9_ReturnsLowestCommonAncestor ==
    (AllStored(objects, fca.a) /\ AllStored(objects, fca.b) /\ fca.hash # None)
        => ~\E x \in CommonAncestors(objects, fca.a, fca.b) \ {fca.a, fca.b} :
               StrictAncestor(objects, fca.hash, x)

----------------------------------------------------------------------------
(* Claims about commit_working_dir, checked under Spec *)

\* C13 as stated: after a successful commit_working_dir, HEAD symbolic or
\* detached, head_commit() is the returned commit and head_ref() is the ref
\* it was before the call.
C13_HeadCommitIsReturnedCommit ==
    [][(last'.op = "commit" /\ last'.result = "HashRef")
          => (/\ head_commit(branches', head') = [ok |-> TRUE, hash |-> last'.target]
              /\ head' = head)]_vars

\* C13 amended: after a successful commit_working_dir head_ref() is the ref
\* it was before the call; with a symbolic HEAD head_commit() is the returned
\* commit, with a detached HEAD it is still the commit HEAD named before the
\* call, which is the parent of the returned commit.
C13_BranchFollowsCommit ==
    [][(last'.op = "commit" /\ last'.result = "HashRef")
          => (/\ head' = head
              /\ head.kind = "sym" =>
                    head_commit(branches', head') = [ok |-> TRUE, hash |-> last'.target]
              /\ head.kind = "hash" =>
                    (/\ head_commit(branches', head') = head_commit(branches, head)
                     /\ objects'[last'.target] = <<head.hash>>
                     /\ branches' = branches))]_vars

\* a commit made with HEAD detached: HEAD still names the parent
C13_Witness ==
    /\ last.op = "commit"
    /\ last.result = "HashRef"
    /\ head = HashRef(last.head)
    /\ last.target # last.head
    /\ objects[last.target] = <<last.head>>

\* C14: the commit commit_working_dir creates has as parents exactly the
\* commit HEAD resolved to before the call, or no parent when HEAD resolved to
\* no commit; never more than one parent.
C14_ParentIsPriorHead ==
    [][(last'.op = "commit" /\ last'.result = "HashRef")
          => (/\ last'.target \in DOMAIN objects'
              /\ objects'[last'.target] =
                    (IF head_commit(branches, head).hash = None THEN <<>>
                     ELSE <<head_commit(branches, head).hash>>)
              /\ Len(objects'[last'.target]) <= 1)]_vars

\* a second commit on a branch, its parent the first
C14_Witness ==
    /\ last.op = "commit"
    /\ last.result = "HashRef"
    /\ head.kind = "sym"
    /\ last.head \in DOMAIN objects
    /\ objects[last.head] = <<>>
    /\ objects[last.target] = <<last.head>>
    /\ branches[head.name] = last.target

----------------------------------------------------------------------------
(* Claims about checkout, checked under SpecWD *)

\* the directory a tree describes
RECURSIVE TreeAsDir(_)
TreeAsDir(t) ==
    [n \in DOMAIN t |-> IF t[n].type = "blob" THEN File(t[n].hash[2])
                        ELSE Dir(TreeAsDir(t[n].hash[2]))]

\* the commit c, or no commit, has a root tree that can be read
TreeReadable(c) ==
    c = None \/ (c \in DOMAIN objects /\ c \in DOMAIN tree_hash /\ tree_hash[c] \in store)

\* the directory the commit c describes, empty for no commit
CommitDir(c) == IF c = None THEN EmptyDir ELSE TreeAsDir(tree_hash[c][2])

\* the working directory differs from the tree of the commit HEAD resolves to
WorkingDirDiffers ==
    /\ exists
    /\ head_commit(branches, head).ok
    /\ TreeReadable(head_commit(branches, head).hash)
    /\ wd # CommitDir(head_commit(branches, head).hash)

\* C11: when the working directory differs from the current HEAD tree (a
\* tracked file modified or deleted, a new file with HEAD unborn), checkout
\* fails and changes neither the working directory nor HEAD.
C11_DirtyCheckoutRefused ==
    [][(last'.op = "checkout" /\ WorkingDirDiffers)
          => (/\ last'.result # "None"
              /\ wd' = wd
              /\ head' = head)]_vars

\* a checkout of another commit refused with a tracked file modified
C11_Witness ==
    /\ last.op = "checkout"
    /\ last.result = "RepositoryError"
    /\ WorkingDirDiffers
    /\ head_commit(branches, head).hash \notin {None, last.target}
    /\ TreeReadable(last.target)
    /\ \E n \in DOMAIN wd \cap DOMAIN CommitDir(head_commit(branches, head).hash) :
           wd[n] # CommitDir(head_commit(branches, head).hash)[n]

\* C12: after a successful checkout HEAD is a symbolic ref to the branch when
\* a branch was given and the literal hash when a hash was given; HEAD
\* resolves to the target commit and the files of the working directory are
\* those of the target tree.
C12_CheckoutSetsHeadAndFiles ==
    [][(last'.op = "checkout" /\ last'.result = "None")
          => (/\ last'.case = "sym" => head' = SymRef(last'.name)
              /\ last'.case = "hash" => head' = HashRef(last'.target)
              /\ head_commit(branches', head') = [ok |-> TRUE, hash |-> last'.target]
              /\ TreeReadable(last'.target)
              /\ wd' = CommitDir(last'.target))]_vars

\* a checkout of a hash that left HEAD detached on a commit with files, the
\* branch main on a commit with other files
C12_Witness ==
    /\ last.op = "checkout"
    /\ last.result = "None"
    /\ last.case = "hash"
    /\ head = HashRef(last.target)
    /\ wd = CommitDir(last.target)
    /\ wd # EmptyDir
    /\ branches["main"] \in DOMAIN objects \ {last.target}
    /\ tree_hash[branches["main"]] # tree_hash[last.target]

----------------------------------------------------------------------------
(* Claims about the order of the writes of a commit, checked under SpecSteps *)

\* C15: commit_working_dir writes the trees and the commit object before it
\* updates the branch ref: at every step, and after a crash between two
\* steps, every non-empty branch ref names a commit object present in the
\* store, whose root tree is present too.
C15_RefsNameStoredCommits ==
    \A b \in DOMAIN branches :
        branches[b] # None =>
            (/\ branches[b] \in DOMAIN objects
             /\ tree_hash[branches[b]] \in store)

\* a crash after the commit object was saved and before the ref was updated:
\* the branch still names the parent, the new commit is in the store
C15_Witness ==
    /\ last.op = "crash"
    /\ head.kind = "sym"
    /\ head.name \in DOMAIN branches
    /\ branches[head.name] # None
    /\ \E c \in DOMAIN objects :
           /\ objects[c] = <<branches[head.name]>>
           /\ \A b \in DOMAIN branches : branches[b] # c

----------------------------------------------------------------------------
(* Claims about failed operations, checked under SpecLife *)

\* C16: when init, add_branch, delete_branch, update_ref, commit_working_dir,
\* merge or entering the merge state fails, whether the repository exists,
\* HEAD, the branches with their targets and the merge marker are what they
\* were before the call.
C16_FailureChangesNothing ==
    [][(/\ last'.op \in {"init", "add_branch", "delete_branch", "update_ref",
                         "commit", "merge", "enter_merge"}
        /\ last'.result \notin {"None", "HashRef"})
          => (/\ exists' = exists
              /\ head' = head
              /\ branches' = branches
              /\ merging' = merging)]_vars

----------------------------------------------------------------------------
(* Claims about the growth of the object store, checked under SpecAppend *)

\* C18: the object store is append-only: across every operation other than
\* delete_repo, each object in the store before the operation (blob, tree
\* or commit) is in the store after it, with the same content.
C18_StoreAppendOnly ==
    [][last'.op # "delete_repo" =>
          /\ store \subseteq store'
          /\ \A c \in DOMAIN objects :
                /\ c \in DOMAIN objects'
                /\ objects'[c] = objects[c]
                /\ tree_hash'[c] = tree_hash[c]]_vars

\* a second commit of other file contents, the first commit's blob and
\* tree still stored beside the new ones
C18_Witness ==
    /\ last.op = "commit"
    /\ Cardinality(DOMAIN objects) = 2
    /\ \E c1, c2 \in DOMAIN objects :
          /\ tree_hash[c1] # tree_hash[c2]
          /\ tree_hash[c1] \in store
          /\ tree_hash[c2] \in store
    /\ \E x, y \in Contents : x # y /\ hash_file(x) \in store /\ hash_file(y) \in store

----------------------------------------------------------------------------
(* Claims about Repository.diff, checked under SpecDiff *)

\* a call of diff has been made and dc holds its answer
DiffCalled == dc # NoDiffCall

\* the root tree a source of the last call denotes: the tree built from the
\* working directory, or the tree of the commit named (HEAD when no source)
SideTree(source) ==
    IF source.kind = "path" THEN build_tree_from_fs(wd)
    ELSE IF source = NoSource THEN tree_hash[head_commit(branches, head).hash][2]
    ELSE tree_hash[source.hash][2]

\* C19: diff returns the empty list when both sides denote identical trees:
\* the same source twice, or two sources (a commit and HEAD, a commit and the
\* unchanged working directory, two commits) whose root trees are equal.
C19_IdenticalTreesEmptyDiff ==
    (/\ DiffCalled
     /\ \/ dc.source1 = dc.source2
        \/ SideTree(dc.source1) = SideTree(dc.source2))
        => (dc.ok /\ DiffResult(dc) = <<>>)

\* two commits with different hashes that hold the same files, one of them
\* in a subdirectory, compared through the store
C19_Witness ==
    /\ dc.source1 = HashRef(1)
    /\ dc.source2 = HashRef(2)
    /\ tree_hash[1] = tree_hash[2]
    /\ \E n \in DOMAIN wd : wd[n][1] = "dir" /\ wd[n][2] # EmptyDir
    /\ dc.ok
    /\ DiffResult(dc) = <<>>

\* the files of a tree: <<path, content hash>>, a path the list of names
\* from the root
RECURSIVE FilesOf(_)
FilesOf(t) ==
    {<<<<n>>, t[n].hash>> : n \in {m \in DOMAIN t : t[m].type = "blob"}}
        \cup UNION {{<<<<n>> \o e[1], e[2]>> : e \in FilesOf(t[n].hash[2])} :
                        n \in {m \in DOMAIN t : t[m].type = "tree"}}

\* p names an entry (file or directory) of tree t
RECURSIVE HasPath(_, _)
HasPath(t, p) ==
    /\ p # <<>>
    /\ Head(p) \in DOMAIN t
    /\ \/ Len(p) = 1
       \/ t[Head(p)].type = "tree" /\ HasPath(t[Head(p)].hash[2], Tail(p))

\* p names a directory of tree t (the empty path names the root)
RECURSIVE IsDir(_, _)
IsDir(t, p) ==
    \/ p = <<>>
    \/ /\ Head(p) \in DOMAIN t
       /\ t[Head(p)].type = "tree"
       /\ IsDir(t[Head(p)].hash[2], Tail(p))

ParentPath(p) == SubSeq(p, 1, Len(p) - 1)

\* the path a Diff node stands for: the names of the records from the top
RECURSIVE NodePath(_, _)
NodePath(nodes, i) ==
    IF i = TopLevelDiff THEN <<>>
    ELSE NodePath(nodes, nodes[i].parent) \o <<nodes[i].record.name>>

\* the node is in the returned diff: a child of a child ... of top_level_diff
RECURSIVE InResult(_, _)
InResult(nodes, i) ==
    \/ i = TopLevelDiff
    \/ /\ nodes[i].parent # NoDiff
       /\ \E k \in DOMAIN nodes[nodes[i].parent].children :
              nodes[nodes[i].parent].children[k] = i
       /\ InResult(nodes, nodes[i].parent)

\* the nodes of a kind the returned diff holds for a path
NodesAt(nodes, kind, p) ==
    {i \in DOMAIN nodes : /\ nodes[i].kind = kind
                          /\ i # TopLevelDiff
                          /\ NodePath(nodes, i) = p
                          /\ InResult(nodes, i)}

\* the file at p is reported as moved to q: one MovedTo node for p and one
\* MovedFrom node for q, each holding the other, no Removed(p), no Added(q)
ReportedAsMove(nodes, p, q) ==
    /\ Cardinality(NodesAt(nodes, "MovedTo", p)) = 1
    /\ Cardinality(NodesAt(nodes, "MovedFrom", q)) = 1
    /\ \A i \in NodesAt(nodes, "MovedTo", p) : \A j \in NodesAt(nodes, "MovedFrom", q) :
          nodes[i].moved = j /\ nodes[j].moved = i
    /\ NodesAt(nodes, "Removed", p) = {}
    /\ NodesAt(nodes, "Added", q) = {}

\* a content that tree a holds at p and tree b at q, p no path of b and q
\* no path of a, and at no other path that only one of the trees has
MovedFiles(a, b) ==
    {m \in {<<f[1], g[1], f[2], g[2]>> : f \in FilesOf(a), g \in FilesOf(b)} :
        /\ m[3] = m[4]
        /\ m[1] # m[2]
        /\ ~HasPath(b, m[1])
        /\ ~HasPath(a, m[2])
        /\ \A f \in FilesOf(a) : (f[2] = m[3] /\ ~HasPath(b, f[1])) => f[1] = m[1]
        /\ \A g \in FilesOf(b) : (g[2] = m[3] /\ ~HasPath(a, g[1])) => g[1] = m[2]}

\* the moved files whose directories both trees have
MovedFilesInSharedDirs(a, b) ==
    {m \in MovedFiles(a, b) :
        /\ IsDir(a, ParentPath(m[1])) /\ IsDir(b, ParentPath(m[1]))
        /\ IsDir(a, ParentPath(m[2])) /\ IsDir(b, ParentPath(m[2]))}

RECURSIVE SubtreeAt(_, _)
SubtreeAt(t, p) == IF p = <<>> THEN t ELSE SubtreeAt(t[Head(p)].hash[2], Tail(p))

\* the names of the children of a node, in the order of its children list
ChildNames(nodes, i) ==
    [k \in DOMAIN nodes[i].children |-> nodes[nodes[i].children[k]].record.name]

\* the names a comparison of directories a and b reports, in the order it
\* visits them: the names of a that b lacks or holds with another hash, then
\* the names only b has
VisitedNames(a, b) ==
    SelectSeq(RecordNames(a), LAMBDA n : n \notin DOMAIN b \/ a[n].hash # b[n].hash)
        \o SelectSeq(RecordNames(b), LAMBDA n : n \notin DOMAIN a)

\* the nodes of the returned diff that stand for a pair of compared directories
ComparedDirs(nodes, a, b) ==
    {i \in DOMAIN nodes :
        /\ nodes[i].kind \in {"Top", "Modified"}
        /\ InResult(nodes, i)
        /\ IsDir(a, NodePath(nodes, i))
        /\ IsDir(b, NodePath(nodes, i))}

\* C21: in the children of every directory's node the nodes for A's entries
\* (removed, moved away or modified) come first in A's name order, then the
\* nodes for the names only B has in B's name order; a node made part of a
\* move keeps its position and its name.
C21_ChildrenInVisitOrder ==
    (DiffCalled /\ dc.ok /\ dc.source1 # dc.source2)
        => LET a == SideTree(dc.source1)
               b == SideTree(dc.source2)
           IN \A i \in ComparedDirs(dc.nodes, a, b) :
                /\ ChildNames(dc.nodes, i)
                      = VisitedNames(SubtreeAt(a, NodePath(dc.nodes, i)),
                                     SubtreeAt(b, NodePath(dc.nodes, i)))
                /\ \A k \in DOMAIN dc.nodes[i].children :
                      LET c == dc.nodes[dc.nodes[i].children[k]]
                      IN IF c.record.name \in DOMAIN SubtreeAt(a, NodePath(dc.nodes, i))
                         THEN c.kind \in {"Removed", "MovedTo", "Modified"}
                         ELSE c.kind \in {"Added", "MovedFrom"}

----------------------------------------------------------------------------
(* Claims about diff on a damaged store, checked under SpecCorrupt *)

\* the subtrees a comparison of trees a and b looks up: for every name both
\* hold as directories with different hashes, the two subtrees and what
\* their comparison looks up; <<1, h>> is looked up on side 1, <<2, h>> on side 2
RECURSIVE NeededSubtrees(_, _)
NeededSubtrees(a, b) ==
    UNION {{<<1, a[n].hash>>, <<2, b[n].hash>>}
                \cup NeededSubtrees(a[n].hash[2], b[n].hash[2]) :
             n \in {m \in DOMAIN a \cap DOMAIN b :
                      /\ a[m].type = "tree" /\ b[m].type = "tree"
                      /\ a[m].hash # b[m].hash}}

\* the commit a source names or its root tree cannot be loaded
SourceUnloadable(source) ==
    /\ source.kind = "hash"
    /\ \/ source.hash \notin DOMAIN objects
       \/ tree_hash[source.hash] \notin store

\* a subtree the comparison of the two sources looks up in the store is not there
SubtreeUnloadable(source1, source2) ==
    \E x \in NeededSubtrees(SideTree(source1), SideTree(source2)) :
        /\ (IF x[1] = 1 THEN source1 ELSE source2).kind = "hash"
        /\ x[2] \notin store

\* C22: when a commit, a root tree or a subtree that diff has to load is
\* missing or unreadable, the call raises RepositoryError and returns no
\* list, not even a partial one.
C22_UnloadableObjectFailsDiff ==
    [][(/\ dc' # dc
        /\ \/ SourceUnloadable(dc'.source1)
           \/ SourceUnloadable(dc'.source2)
           \/ SubtreeUnloadable(dc'.source1, dc'.source2))
          => (/\ ~dc'.ok
              /\ dc'.error = "RepositoryError"
              /\ dc'.nodes = <<>>)]_vars

\* both commits and both root trees load, the subdirectory of the first
\* commit does not; the comparison of the roots had already found a change
\* when the lookup failed
C22_Witness ==
    /\ dc.source1 = HashRef(1)
    /\ dc.source2 = HashRef(2)
    /\ dc.error = "RepositoryError"
    /\ ~SourceUnloadable(dc.source1)
    /\ ~SourceUnloadable(dc.source2)
    /\ \E x \in NeededSubtrees(SideTree(dc.source1), SideTree(dc.source2)) :
          x[1] = 1 /\ x[2] \notin store
    /\ Names[2] \in DOMAIN SideTree(dc.source1)
    /\ Names[2] \notin DOMAIN SideTree(dc.source2)

----------------------------------------------------------------------------
(* Claims about resolve_ref on strings, checked under SpecResolve *)

\* C23: resolve_ref of a plain string that is the name of an existing branch
\* returns the commit hash in that branch's ref, nothing when the branch is
\* unborn, also when the name is a well-formed hash string.
C23_BranchNameResolvesToItsCommit ==
    [][(last'.op = "resolve_ref" /\ last'.name \in DOMAIN branches)
          => /\ last'.result = (IF branches[last'.name] = None THEN "None" ELSE "HashRef")
             /\ last'.target = branches[last'.name]]_vars

----------------------------------------------------------------------------
(* Claims about the values of branch refs, checked under SpecRefs *)

\* C24: in every state the public operations reach, a branch ref holds
\* nothing or a literal hash, never a symbolic ref, so that HEAD resolves
\* in at most one symbolic hop.
C24_BranchRefsHoldHashes ==
    \A b \in DOMAIN branches : ~IsSymValue(branches[b])

----------------------------------------------------------------------------
(* Claims about the set of branches, checked under Spec *)

\* C25: after init every state has at least one branch: delete_branch called
\* when one branch is left fails and removes nothing.
C25_LastBranchStays ==
    [][/\ DOMAIN branches' # {}
       /\ (last'.op = "delete_branch" /\ Cardinality(DOMAIN branches) = 1)
             => (last'.result \in {"RepositoryError", "ValueError"}
                 /\ branches' = branches)]_vars

\* delete_branch refused on the only branch, which had been one of two and
\* holds a commit
C25_Witness ==
    /\ last.op = "delete_branch"
    /\ last.result = "RepositoryError"
    /\ DOMAIN branches = {"dev"}
    /\ branches["dev"] # None

----------------------------------------------------------------------------
(* Claims about trees built from directories, checked under SpecTree *)

\* C26: build_tree_from_fs is read-only: it leaves the objects of the store,
\* every ref and the working directory as they were.
C26_BuildTreeWritesNothing ==
    [][(sc' # sc /\ sc'.op = "build_tree_from_fs")
          => /\ store' = store
             /\ objects' = objects
             /\ tree_hash' = tree_hash
             /\ branches' = branches
             /\ head' = head
             /\ wd' = wd]_vars

\* a tree built from a directory with a subdirectory of files, and the store
\* still without that tree after the call
C26_Witness ==
    /\ sc.op = "build_tree_from_fs"
    /\ \E n \in DOMAIN wd : wd[n][1] = "dir" /\ wd[n][2] # EmptyDir
    /\ sc.hash \notin store
    /\ sc.before = store

\* C27: the tree hash of a directory is the same for every order in which
\* its entries are listed, through build_tree_from_fs and through save_dir.
C27_HashIndependentOfListingOrder ==
    [][(sc' # sc /\ sc'.op \in {"build_tree_from_fs", "save_dir"})
          => \A order \in EntryOrders :
                /\ hash_object_tree(build_dir_tree(wd, order)) = sc'.hash
                /\ hash_object_tree(save_dir_listed(wd, order)) = sc'.hash]_vars

\* save_dir on a directory that holds two entries and a subdirectory of two
\* entries, listed in the order opposite to the sorted one
C27_Witness ==
    /\ sc.op = "save_dir"
    /\ sc.order # Names
    /\ DOMAIN wd = Range(Names)
    /\ \E n \in DOMAIN wd : wd[n][1] = "dir" /\ DOMAIN wd[n][2] = Range(Names)
    /\ sc.hash \in store

----------------------------------------------------------------------------
(* Claims about tags, checked under SpecTags *)

\* C28: a tag is never reassigned in place: create_tag with an existing
\* name fails and leaves the tag as it was, and no operation changes the
\* commit of a tag that exists before and after it.
C28_TagNeverReassigned ==
    [][/\ (last'.op = "create_tag" /\ last'.name \in DOMAIN tags)
             => (last'.result = "RepositoryError" /\ tags' = tags)
       /\ \A t \in DOMAIN tags \cap DOMAIN tags' : tags'[t] = tags[t]]_vars

----------------------------------------------------------------------------
(* Claims about concurrent commits, checked under SpecRace *)

\* two calls that have returned, made on the same branch from the same
\* parent commit, p's ref write before q's
Raced(p, q) ==
    /\ p # q
    /\ writers[p].pc = Returned /\ writers[q].pc = Returned
    /\ writers[p].branch # "" /\ writers[p].branch = writers[q].branch
    /\ writers[p].parent = writers[q].parent
    /\ writers[p].order < writers[q].order

\* commit c can be reached from some ref over parent edges
ReachableFromARef(c) ==
    \/ \E b \in DOMAIN branches :
          branches[b] # None /\ c \in AncestorsOrSelf(objects, branches[b])
    \/ \E t \in DOMAIN tags : c \in AncestorsOrSelf(objects, tags[t])
    \/ head.kind = "hash" /\ c \in AncestorsOrSelf(objects, head.hash)

\* the commit and the tree a returned call wrote are in the store as written
Intact(p) ==
    /\ writers[p].commit \in DOMAIN objects
    /\ objects[writers[p].commit] = commit_parents(writers[p].parent)
    /\ tree_hash[writers[p].commit] = writers[p].tree
    /\ writers[p].tree \in store

\* C29: when two commit_working_dir calls on one branch have both read the
\* same parent, the branch holds the commit of the call that wrote the ref
\* last and the objects both calls wrote are in the store as written; the
\* two calls built one and the same commit only if they saved the same tree,
\* and otherwise the other call's commit is reachable from no ref.
C29_LastWriterWins ==
    \A p, q \in Writers :
        Raced(p, q) =>
            /\ branches[writers[q].branch] = writers[q].commit
            /\ Intact(p) /\ Intact(q)
            /\ writers[p].commit = writers[q].commit => writers[p].tree = writers[q].tree
            /\ writers[p].commit # writers[q].commit
                   => ~ReachableFromARef(writers[p].commit)

\* two calls that raced from a stored parent commit, the trees they saved
\* different
C29_Witness ==
    \E p, q \in Writers :
        /\ Raced(p, q)
        /\ writers[p].parent # None
        /\ writers[p].tree # writers[q].tree
        /\ ~ReachableFromARef(writers[p].commit)

----------------------------------------------------------------------------
(* Claims about the walks of find_common_ancestor, checked under SpecFCA *)

\* the commits the first walk of the last find_common_ancestor call loaded,
\* in the order it loaded them
FirstWalkLoads == CollectAncestors(objects, <<fca.a>>, {}, <<>>).loads

\* C30: the walk that collects the ancestors of a loads and expands every
\* commit at most once, also one reachable from a along several parent paths.
C30_FirstWalkLoadsOnce ==
    (fca.a # None /\ fca.a # fca.b)
        => \A i, j \in DOMAIN FirstWalkLoads :
              i # j => FirstWalkLoads[i] # FirstWalkLoads[j]

----------------------------------------------------------------------------
(* Claims about the result of find_common_ancestor, checked under SpecFCA *)

\* the commits k parent edges away from c
RECURSIVE ParentsAt(_, _, _)
ParentsAt(objs, c, k) ==
    IF k = 0 THEN {c}
    ELSE UNION {Range(objs[x]) : x \in ParentsAt(objs, c, k - 1) \cap DOMAIN objs}

\* the least number of parent edges from c to its ancestor x
Distance(objs, c, x) ==
    CHOOSE k \in 0..NumCommits :
        /\ x \in ParentsAt(objs, c, k)
        /\ \A j \in 0..(k - 1) : x \notin ParentsAt(objs, c, j)

\* C31: the commit find_common_ancestor(a, b) returns is a common ancestor
\* of a and b at the least distance from b in parent edges; called with
\* a = b it returns a, whether or not a can be loaded.
C31_ReturnsNearestToB ==
    /\ (fca.a # None /\ fca.a = fca.b) => (fca.ok /\ fca.hash = fca.a)
    /\ (fca.a # fca.b /\ fca.ok /\ fca.hash # None)
          => /\ fca.hash \in CommonAncestors(objects, fca.a, fca.b)
             /\ \A x \in CommonAncestors(objects, fca.a, fca.b) :
                   Distance(objects, fca.b, fca.hash) <= Distance(objects, fca.b, x)

\* a call whose result is one edge from b while another common ancestor,
\* reached through b's first parent, is farther away
C31_Witness ==
    /\ fca.a # fca.b /\ fca.ok /\ fca.hash \notin {None, fca.a, fca.b}
    /\ AllStored(objects, fca.a) /\ AllStored(objects, fca.b)
    /\ Len(objects[fca.b]) = 2
    /\ fca.hash = objects[fca.b][2]
    /\ \E x \in CommonAncestors(objects, fca.a, fca.b) :
          /\ x \in AncestorsOrSelf(objects, objects[fca.b][1])
          /\ Distance(objects, fca.b, x) > Distance(objects, fca.b, fca.hash)

----------------------------------------------------------------------------
(* Claims about commits that cannot be loaded, checked under SpecLoad *)

\* some commit that both walks of find_common_ancestor(a, b) are bound to
\* visit is not stored: an ancestor-or-self of a, or an ancestor-or-self of
\* b nearer to b than every common ancestor
MustVisitUnloadable(objs, a, b) ==
    \/ ~AllStored(objs, a)
    \/ \E x \in AncestorsOrSelf(objs, b) \ DOMAIN objs :
          \A y \in CommonAncestors(objs, a, b) :
              Distance(objs, b, x) < Distance(objs, b, y)

\* C32: a merge whose walks meet a commit that cannot be loaded fails with
\* RuntimeError, with no classification, and every merge that fails so
\* leaves HEAD, the branch refs and the merge marker as they were.
C32_UnloadableCommitFailsMerge ==
    [][(last'.op = "merge" /\ last' # last)
          => /\ (last'.head # last'.target
                   /\ MustVisitUnloadable(objects, last'.head, last'.target))
                    => last'.case = "ERROR"
             /\ last'.case = "ERROR"
                    => /\ last'.result = "RuntimeError"
                       /\ last'.base = None
                       /\ head' = head
                       /\ branches' = branches
                       /\ merging' = merging
                       /\ ~(AllStored(objects, last'.head)
                              /\ AllStored(objects, last'.target))]_vars

\* a merge that failed in the middle of a walk: HEAD's commit and the target
\* are stored, a parent behind one of them is not
C32_Witness ==
    /\ last.op = "merge" /\ last.case = "ERROR"
    /\ last.head \in DOMAIN objects
    /\ last.target \in DOMAIN objects
    /\ ~(AllStored(objects, last.head) /\ AllStored(objects, last.target))
    /\ last.result = "RuntimeError"

----------------------------------------------------------------------------
(* Claims about the moved nodes of a diff, checked under SpecDeep *)

\* the nodes of the returned diff: those reached from top_level_diff over
\* the children lists
RECURSIVE NodesBelow(_, _)
NodesBelow(nodes, i) ==
    Range(nodes[i].children)
        \cup UNION {NodesBelow(nodes, k) : k \in Range(nodes[i].children)}

ResultNodes(nodes) == NodesBelow(nodes, TopLevelDiff)

\* the node is listed among the children of the node its parent field names
ChildOfParent(nodes, i) ==
    /\ nodes[i].parent # NoDiff
    /\ i \in Range(nodes[nodes[i].parent].children)
    /\ \A p \in DOMAIN nodes : i \in Range(nodes[p].children) => p = nodes[i].parent

\* C33: in every diff result each MovedTo node m holds a MovedFrom node f
\* that is in the result and holds m, both records have the same hash, m is
\* at a path of the first tree and f at a path of the second, and every
\* node of the result is a child of the node its parent field names.
C33_MovedNodesArePairs ==
    (DiffCalled /\ dc.ok /\ dc.source1 # dc.source2)
        => /\ \A i \in ResultNodes(dc.nodes) : ChildOfParent(dc.nodes, i)
           /\ \A m \in ResultNodes(dc.nodes) :
                 dc.nodes[m].kind = "MovedTo"
                    => LET f == dc.nodes[m].moved
                       IN /\ f \in ResultNodes(dc.nodes)
                          /\ dc.nodes[f].kind = "MovedFrom"
                          /\ dc.nodes[f].moved = m
                          /\ dc.nodes[f].record.hash = dc.nodes[m].record.hash
                          /\ HasPath(SideTree(dc.source1), NodePath(dc.nodes, m))
                          /\ HasPath(SideTree(dc.source2), NodePath(dc.nodes, f))

----------------------------------------------------------------------------
(* Claims about the names a diff reports, checked under SpecDiff *)

\* the positions in the children of node i that carry name n
ChildrenNamed(nodes, i, n) ==
    {k \in DOMAIN nodes[i].children : nodes[nodes[i].children[k]].record.name = n}

\* name n has exactly one child under node i, of one of the kinds
OneChildOfKind(nodes, i, n, kinds) ==
    /\ Cardinality(ChildrenNamed(nodes, i, n)) = 1
    /\ \A k \in ChildrenNamed(nodes, i, n) : nodes[nodes[i].children[k]].kind \in kinds

\* C34: for every pair of compared directories, each name only the first
\* holds has exactly one child node, Removed or MovedTo, and each name only
\* the second holds exactly one, Added or MovedFrom, whatever hashes the
\* records of the diff share.
C34_OneNodePerOneSidedName ==
    (DiffCalled /\ dc.ok /\ dc.source1 # dc.source2)
        => LET a == SideTree(dc.source1)
               b == SideTree(dc.source2)
           IN \A i \in ComparedDirs(dc.nodes, a, b) :
                 LET ta == SubtreeAt(a, NodePath(dc.nodes, i))
                     tb == SubtreeAt(b, NodePath(dc.nodes, i))
                 IN /\ \A n \in DOMAIN ta \ DOMAIN tb :
                          OneChildOfKind(dc.nodes, i, n, {"Removed", "MovedTo"})
                    /\ \A n \in DOMAIN tb \ DOMAIN ta :
                          OneChildOfKind(dc.nodes, i, n, {"Added", "MovedFrom"})


\* the paths the returned diff reports with a node of the kind
PathsOfKind(nodes, kind) ==
    {NodePath(nodes, i) : i \in {k \in ResultNodes(nodes) : nodes[k].kind = kind}}

\* the answer of the last diff call made again with its two sources swapped
SwappedDiff ==
    diff(objects, tree_hash, store, branches, head, wd, dc.source2, dc.source1)

\* C35: swapping the two sides of a diff swaps additions and removals: what
\* diff(B, A) reports Removed is what diff(A, B) reports Added and the other
\* way round, and both report the same paths Modified.
C35_SwapSwapsAddedAndRemoved ==
    (DiffCalled /\ dc.ok /\ dc.source1 # dc.source2)
        => /\ SwappedDiff.ok
           /\ PathsOfKind(SwappedDiff.nodes, "Removed") = PathsOfKind(dc.nodes, "Added")
           /\ PathsOfKind(SwappedDiff.nodes, "Added") = PathsOfKind(dc.nodes, "Removed")
           /\ PathsOfKind(SwappedDiff.nodes, "Modified") = PathsOfKind(dc.nodes, "Modified")

----------------------------------------------------------------------------
(* C36 *)

\* the commit log starts at: the tip, HEAD when no tip is given, resolved
LogStart(tip) == resolve_ref(branches, IF tip = NoRef THEN head ELSE tip)

\* the commit the generator goes on with: the tip resolved at the first
\* next(), the first parent of the entry yielded last at the later ones
LogGoesOnWith ==
    IF lg.pc = "called" THEN LogStart(lg.tip).hash
    ELSE LET newest == lg.entries[Len(lg.entries)]
         IN IF objects[newest] # <<>> THEN objects[newest][1] ELSE None

\* C36: log(tip) yields the commits of the first-parent chain that starts at
\* the commit the tip resolves to, newest first, each exactly once: every
\* next() yields the tip's commit or the first parent of the entry before,
\* never a commit yielded already; the generator ends without an entry when
\* the tip resolves to no commit, ends after the first commit without
\* parents, and raises RepositoryError only at a commit that is not stored.
C36_LogIsFirstParentChain ==
    [][(lg' # lg /\ lg.pc \in {"called", "yielded"} /\ exists
            /\ (lg.pc = "called" => LogStart(lg.tip).ok)) =>
        /\ Len(lg'.entries) <= NumHashes
        /\ IF LogGoesOnWith = None
           THEN lg'.pc = "ended" /\ lg'.ok /\ lg'.entries = lg.entries
           ELSE IF CanLoad(objects, LogGoesOnWith)
           THEN /\ lg'.pc = "yielded"
                /\ lg'.entries = Append(lg.entries, LogGoesOnWith)
                /\ LogGoesOnWith \notin Range(lg.entries)
           ELSE /\ lg'.pc = "ended" /\ ~lg'.ok
                /\ lg'.error = "RepositoryError"
                /\ lg'.entries = lg.entries]_vars

\* log() of HEAD at a merge commit, consumed to its end: the second parent is
\* left out
C36_Witness ==
    /\ lg.pc = "ended" /\ lg.ok /\ lg.tip = NoRef /\ Len(lg.entries) = 2
    /\ head_commit(branches, head).hash = lg.entries[1]
    /\ CanLoad(objects, lg.entries[1])
    /\ Len(objects[lg.entries[1]]) = 2
    /\ objects[lg.entries[1]][1] = lg.entries[2]
    /\ objects[lg.entries[1]][2] \notin Range(lg.entries)

----------------------------------------------------------------------------
(* C37 *)

\* the paths of the directories of a hierarchy, the root included
RECURSIVE DirPaths(_)
DirPaths(d) ==
    {<<>>} \cup UNION {{<<n>> \o p : p \in DirPaths(d[n][2])} :
                          n \in {m \in DOMAIN d : d[m][1] = "dir"}}

\* p lies strictly below q
Below(p, q) == Len(p) > Len(q) /\ SubSeq(p, 1, Len(q)) = q

\* C37: build_tree_from_fs builds the tree of every directory once and the
\* tree of a subdirectory before the tree of its parent; subtrees_by_hash
\* holds the root tree and the tree of every Tree record of a tree it holds;
\* a diff of a stored commit against the working directory succeeds whether
\* or not the object store holds the trees of the working directory.
C37_WorkingTreesComeFromMemory ==
    [][(dc' # dc /\ exists /\ PathSource \in {dc'.source1, dc'.source2}) =>
        LET w == build_order(wd)
            t == source_to_tree(objects, tree_hash, store, branches, wd, PathSource)
        IN /\ w.ok
           /\ Range(w.built) = DirPaths(wd)
           /\ \A i, j \in DOMAIN w.built :
                  /\ i # j => w.built[i] # w.built[j]
                  /\ Below(w.built[i], w.built[j]) => i < j
           /\ t.mem = walk_subtrees(wd)
           /\ hash_object_tree(t.tree) \in t.mem
           /\ \A h \in t.mem : \A n \in DOMAIN h[2] :
                  h[2][n].type = "tree" => h[2][n].hash \in t.mem
           /\ dc'.ok]_vars

\* a diff of a commit against the working directory compares a subdirectory
\* of both whose working-directory tree is not in the object store
C37_Witness ==
    /\ DiffCalled /\ dc.ok
    /\ dc.source1 = HashRef(1) /\ dc.source2 = PathSource
    /\ \E n \in DOMAIN wd \cap DOMAIN tree_hash[1][2] :
        /\ wd[n][1] = "dir"
        /\ tree_hash[1][2][n].type = "tree"
        /\ tree_hash[1][2][n].hash # build_tree_from_fs(wd)[n].hash
        /\ build_tree_from_fs(wd)[n].hash \notin store
        /\ \E i \in DOMAIN dc.nodes :
            /\ dc.nodes[i].kind = "Modified"
            /\ InResult(dc.nodes, i)
            /\ NodePath(dc.nodes, i) = <<n>>
        /\ \E m \in DOMAIN wd[n][2] : wd[n][2][m][1] = "dir"

----------------------------------------------------------------------------
(* C38 *)

\* the last operation was a commit that succeeded: the working directory
\* has not been touched since
JustCommitted(l) == l.op = "commit" /\ l.result = "HashRef"

----------------------------------------------------------------------------
(* C39 *)

\* C39: after init and any calls of add_branch, delete_branch and
\* commit_working_dir, a symbolic HEAD names a branch that exists, and
\* head_commit does not fail.
C39_HeadBranchExists ==
    (exists /\ head.kind = "sym")
        => /\ head.name \in DOMAIN branches
           /\ head_commit(branches, head).ok

----------------------------------------------------------------------------
(* C40 *)

\* C40: on a store that holds every ancestor of a and of b,
\* find_common_ancestor answers the same for (a, b) and for (b, a): the same
\* commit, or no commit both times.
C40_Symmetric ==
    (fca.a # None /\ fca.ok /\ AllStored(objects, fca.a) /\ AllStored(objects, fca.b))
        => /\ find_common_ancestor(objects, fca.b, fca.a).ok
           /\ find_common_ancestor(objects, fca.b, fca.a).hash = fca.hash

====
